---- MODULE Spec2Model ----
(***************************************************************************)
(* Model of the multi-upstream reverse proxy (app.py, token_stats.py,      *)
(* openai_adapter.py): the upstream pool state, the selector, the error    *)
(* recording and switching functions, and the request handler              *)
(* reverse_proxy with its retry loop, retry ladder and extended            *)
(* fallthrough, for the messages pool (API_CONFIGS) and the responses     *)
(* pool (CODEX_CONFIGS) with its adaptive stream timeout.                  *)
(*                                                                         *)
(* Time is a discrete clock `now`; datetime.now() read inside one          *)
(* synchronous stretch of code is one value of `now`.  Python's None for   *)
(* a timestamp is the value None below.  Pool indices are 0-based as in    *)
(* the source.                                                             *)
(***************************************************************************)
EXTENDS Integers, Sequences, FiniteSets, TLC

None == -1

(* ---------------- bounds of the model ---------------- *)
MaxTime == 2            \* the clock stops advancing here
MaxRequests == 3        \* requests handled in a run with one of the LongRunPools
DayLength == 2          \* ticks per calendar day
MaxErrorCount == 5      \* cap on an entry's error_count
MaxExtraSeconds == 2    \* cap on codex_timeout_extra_seconds
MaxCodexTime == 3       \* where the clock stops in a run with a responses pool
MaxCodexRequests == 3   \* requests handled in a run with a responses pool

(* ---------------- configuration values (timeout_settings) ---------------- *)
api_error_threshold == 2
api_cooldown_seconds == 2
primary_api_check_interval == 2
max_retries == 2
codex_error_threshold == 2
codex_timeout_increment == 1
codex_base_timeout == 1

AllDays == 0..6

Weekday(t) == (t \div DayLength) % 7

Min(S) == CHOOSE x \in S : \A y \in S : x <= y

(* A pool is a function 0..n-1 -> entry; entries are listed in configuration order. *)
Pool(seq) == [i \in 0..(Len(seq) - 1) |-> seq[i + 1]]

PoolSize(cfgs) == Cardinality(DOMAIN cfgs)

Entry(ty, days) == [type |-> ty, time_enabled |-> days]

PoolConfigs ==
    { Pool(<<Entry("primary", AllDays), Entry("backup", AllDays)>>),
      Pool(<<Entry("primary", AllDays), Entry("primary", AllDays), Entry("backup", AllDays)>>),
      Pool(<<Entry("primary", {0}), Entry("backup", AllDays), Entry("backup", AllDays)>>),
      Pool(<<Entry("primary", AllDays), Entry("primary", AllDays)>>),
      Pool(<<Entry("primary", AllDays)>>),
      Pool(<<Entry("primary", {0}), Entry("primary", {1})>>) }

(* The responses pools a run is started with. *)
CodexPoolConfigs ==
    { Pool(<<Entry("primary", AllDays)>>),
      Pool(<<Entry("primary", AllDays), Entry("backup", AllDays)>>),
      Pool(<<Entry("primary", AllDays), Entry("primary", AllDays)>>) }

NormalStatus == [status |-> "normal", error_count |-> 0, cooldown_until |-> None]

_init_status_dict(cfgs) == [i \in DOMAIN cfgs |-> NormalStatus]

_get_primary_indices(cfgs) == {i \in DOMAIN cfgs : cfgs[i].type = "primary"}

_get_backup_indices(cfgs) == {i \in DOMAIN cfgs : cfgs[i].type = "backup"}

is_api_available_after_cooldown_only(cfgs, st, i, t) ==
    /\ i \in DOMAIN cfgs
    /\ Weekday(t) \in cfgs[i].time_enabled
    /\ ~(st[i].cooldown_until # None /\ t <= st[i].cooldown_until)

(* is_api_available: the boolean it returns ... *)
is_api_available(cfgs, st, i, t) ==
    /\ i \in DOMAIN cfgs
    /\ Weekday(t) \in cfgs[i].time_enabled
    /\ ~(st[i].cooldown_until # None /\ t < st[i].cooldown_until)

(* ... and the status dictionary it leaves behind after being called on   *)
(* every index of S: an entry that passes all checks with an elapsed       *)
(* cooldown is reset.                                                      *)
CheckedStatus(cfgs, st, S, t) ==
    [i \in DOMAIN st |->
        IF i \in S /\ is_api_available(cfgs, st, i, t) /\ st[i].cooldown_until # None
        THEN NormalStatus
        ELSE st[i]]

AvailableIn_ignoring_cooldown(cfgs, st, S, t) ==
    {i \in S : i \in DOMAIN cfgs /\ Weekday(t) \in cfgs[i].time_enabled}

AvailableIn(cfgs, st, S, t) == {i \in S : is_api_available(cfgs, st, i, t)}

(* _record_error_core *)
_record_error_core_late(st, i, t, threshold) ==
    LET c == st[i].error_count + 1
    IN IF c > threshold
       THEN [st EXCEPT ![i] = [status |-> "warning", error_count |-> c,
                               cooldown_until |-> t + api_cooldown_seconds]]
       ELSE [st EXCEPT ![i].error_count = c]

_record_error_core(st, i, t, threshold) ==
    LET st0 == IF i \in DOMAIN st THEN st ELSE (i :> NormalStatus) @@ st
        c == st0[i].error_count + 1
    IN IF c >= threshold
       THEN [st0 EXCEPT ![i] = [status |-> "warning", error_count |-> c,
                                cooldown_until |-> t + api_cooldown_seconds]]
       ELSE [st0 EXCEPT ![i].error_count = c]

(* Pool state as one record: st = status dict, idx = current index,        *)
(* ub = is_using_backup, bst = backup_start_time, lpc = last_primary_check_time *)
PoolRec(st, idx, ub, bst, lpc) == [st |-> st, idx |-> idx, ub |-> ub, bst |-> bst, lpc |-> lpc]

(* find_primary_api_for_time, as used by ensure_current_api_index *)
find_primary_api_for_time(cfgs, st, t) ==
    LET prim == _get_primary_indices(cfgs)
        avail == AvailableIn(cfgs, st, prim, t)
    IN IF prim = {} THEN None
       ELSE IF avail # {} THEN Min(avail)
       ELSE Min(prim)

(* get_first_available_primary_api_index walks the primaries in order and  *)
(* stops at the first available one, which is the only one it can reset.   *)
FirstAvailableStatus(cfgs, st, S, t) ==
    LET avail == AvailableIn(cfgs, st, S, t)
    IN IF avail = {} THEN st ELSE CheckedStatus(cfgs, st, {Min(avail)}, t)

ensure_current_api_index_keeping_backup(cfgs, G, t, reset_backup_state) ==
    IF PoolSize(cfgs) = 0
    THEN PoolRec(G.st, -1, FALSE, None, None)
    ELSE LET prim == _get_primary_indices(cfgs)
             st1 == FirstAvailableStatus(cfgs, G.st, prim, t)
             found == find_primary_api_for_time(cfgs, G.st, t)
             preferred == IF found = None THEN 0 ELSE found
         IN IF reset_backup_state
            THEN PoolRec(st1, preferred, FALSE, None, None)
            ELSE PoolRec(st1, preferred, G.ub, G.bst, G.lpc)

ensure_current_api_index(cfgs, G, t, reset_backup_state) ==
    IF PoolSize(cfgs) = 0
    THEN PoolRec(G.st, -1, FALSE, None, None)
    ELSE LET prim == _get_primary_indices(cfgs)
             st1 == FirstAvailableStatus(cfgs, G.st, prim, t)
             found == find_primary_api_for_time(cfgs, G.st, t)
             preferred == IF found = None THEN 0 ELSE found
         IN IF reset_backup_state \/ G.ub
            THEN PoolRec(st1, preferred, FALSE, None, None)
            ELSE PoolRec(st1, preferred, G.ub, G.bst, G.lpc)

(* The primary probe of get_current_config (lines 425-431): it is made   *)
(* when no probe has been made yet or the last one is an interval old.  *)
primary_check_never(G, t) == FALSE

primary_check_due(G, t) ==
    G.lpc = None \/ (t - G.lpc) >= primary_api_check_interval

(* A selection that stays on the current backup entry while it is        *)
(* available, and walks the backup list only when it is not.            *)
select_current_config_keeping_backup(cfgs, G, t) ==
    LET prim == _get_primary_indices(cfgs)
        back == _get_backup_indices(cfgs)
        availP == AvailableIn(cfgs, G.st, prim, t)
        st1 == CheckedStatus(cfgs, G.st, prim, t)
        availB == AvailableIn(cfgs, st1, back, t)
        st2 == FirstAvailableStatus(cfgs, st1, back, t)
        should_check == primary_check_due(G, t)
        lpc1 == IF should_check THEN t ELSE G.lpc
    IN IF G.ub
       THEN IF should_check /\ availP # {}
            THEN PoolRec(st1, Min(availP), FALSE, None, None)
            ELSE IF G.idx \in availB \/ availB = {}
                 THEN PoolRec(st2, G.idx, G.ub, G.bst, lpc1)
                 ELSE PoolRec(st2, Min(availB), TRUE, t, None)
       ELSE IF availP # {}
            THEN PoolRec(st1, Min(availP), FALSE, None, None)
            ELSE IF availB # {}
                 THEN PoolRec(st2, Min(availB), TRUE, t, None)
                 ELSE PoolRec(st2, G.idx, G.ub, G.bst, G.lpc)

(* get_current_config from its time/backup logic on (lines 410-485), with   *)
(* the index already made valid.                                           *)
select_current_config(cfgs, G, t) ==
    LET prim == _get_primary_indices(cfgs)
        back == _get_backup_indices(cfgs)
        availP == AvailableIn(cfgs, G.st, prim, t)
        st1 == CheckedStatus(cfgs, G.st, prim, t)
        availB == AvailableIn(cfgs, st1, back, t)
        st2 == FirstAvailableStatus(cfgs, st1, back, t)
        should_check == primary_check_due(G, t)
    IN IF G.ub
       THEN IF should_check /\ availP # {}
            THEN PoolRec(st1, Min(availP), FALSE, None, None)
            ELSE LET lpc1 == IF should_check THEN t ELSE G.lpc
                 IN IF availB # {}
                    THEN IF G.idx # Min(availB)
                         THEN PoolRec(st2, Min(availB), TRUE, t, None)
                         ELSE PoolRec(st2, Min(availB), TRUE, G.bst, lpc1)
                    ELSE PoolRec(st2, G.idx, G.ub, G.bst, lpc1)
       ELSE IF availP # {}
            THEN PoolRec(st1, Min(availP), FALSE, None, None)
            ELSE IF availB # {}
                 THEN PoolRec(st2, Min(availB), TRUE, t, None)
                 ELSE PoolRec(st2, G.idx, G.ub, G.bst, G.lpc)

get_current_config_keeping_entry(cfgs, G0, t) ==
    IF PoolSize(cfgs) = 0 \/ (G0.idx \in DOMAIN cfgs /\ G0.st[G0.idx].cooldown_until = None)
    THEN G0
    ELSE select_current_config(cfgs,
             IF G0.idx < 0 \/ G0.idx >= PoolSize(cfgs)
             THEN ensure_current_api_index(cfgs, G0, t, TRUE)
             ELSE G0, t)

(* get_current_config: the pool state it leaves; the entry it returns is   *)
(* the one at the resulting idx.                                           *)
get_current_config(cfgs, G0, t) ==
    IF PoolSize(cfgs) = 0 THEN G0
    ELSE select_current_config(cfgs,
             IF G0.idx < 0 \/ G0.idx >= PoolSize(cfgs)
             THEN ensure_current_api_index(cfgs, G0, t, TRUE)
             ELSE G0, t)

(* A switch made whatever the entry's error_count *)
smart_switch_api_eager(cfgs, G, cur, t) ==
    LET prim == _get_primary_indices(cfgs)
        back == _get_backup_indices(cfgs)
        availP == AvailableIn(cfgs, G.st, prim, t)
        stP == FirstAvailableStatus(cfgs, G.st, prim, t)
        st0 == IF G.ub THEN stP ELSE G.st
        availB == AvailableIn(cfgs, st0, back, t)
        stB == FirstAvailableStatus(cfgs, st0, back, t)
    IN IF G.ub /\ availP # {}
       THEN [ok |-> TRUE, G |-> PoolRec(stP, Min(availP), FALSE, None, G.lpc)]
       ELSE IF availB # {}
            THEN [ok |-> TRUE, G |-> PoolRec(stB, Min(availB), TRUE, t, None)]
            ELSE [ok |-> TRUE,
                  G |-> PoolRec(stB, IF back # {} THEN Min(back) ELSE PoolSize(cfgs) - 1,
                                TRUE, t, None)]

(* smart_switch_api: [ok |-> switch_success, G |-> pool state afterwards] *)
smart_switch_api(cfgs, G, cur, t) ==
    IF G.st[cur].error_count < api_error_threshold
    THEN [ok |-> FALSE, G |-> G]
    ELSE
    LET prim == _get_primary_indices(cfgs)
        back == _get_backup_indices(cfgs)
        availP == AvailableIn(cfgs, G.st, prim, t)
        stP == FirstAvailableStatus(cfgs, G.st, prim, t)
        st0 == IF G.ub THEN stP ELSE G.st
        availB == AvailableIn(cfgs, st0, back, t)
        stB == FirstAvailableStatus(cfgs, st0, back, t)
    IN IF G.ub /\ availP # {}
       THEN [ok |-> TRUE, G |-> PoolRec(stP, Min(availP), FALSE, None, G.lpc)]
       ELSE IF availB # {}
            THEN [ok |-> TRUE, G |-> PoolRec(stB, Min(availB), TRUE, t, None)]
            ELSE [ok |-> TRUE,
                  G |-> PoolRec(stB, IF back # {} THEN Min(back) ELSE PoolSize(cfgs) - 1,
                                TRUE, t, None)]

(* ---------------- the responses pool (Codex) ---------------- *)
(* is_codex_api_available, get_primary_codex_indices and                 *)
(* get_first_available_primary_codex_index are is_api_available,         *)
(* get_primary_api_indices and get_first_available_primary_api_index     *)
(* over CODEX_CONFIGS and codex_api_status.                              *)
get_codex_backup_api_indices(cfgs) ==
    IF _get_backup_indices(cfgs) # {} THEN _get_backup_indices(cfgs)
    ELSE IF PoolSize(cfgs) > 1 THEN {PoolSize(cfgs) - 1}
    ELSE {}

(* get_current_codex_config: the pool state it leaves. *)
get_current_codex_config(cfgs, C0, t) ==
    IF PoolSize(cfgs) <= 1 THEN C0
    ELSE
    LET prim == _get_primary_indices(cfgs)
        back == get_codex_backup_api_indices(cfgs)
        availP == AvailableIn(cfgs, C0.st, prim, t)
        idx0 == IF C0.idx < 0 \/ C0.idx >= PoolSize(cfgs)
                THEN IF availP # {} THEN Min(availP)
                     ELSE IF prim # {} THEN Min(prim) ELSE 0
                ELSE C0.idx
        st1 == CheckedStatus(cfgs, C0.st, prim, t)
        availB == AvailableIn(cfgs, st1, back, t)
        st2 == FirstAvailableStatus(cfgs, st1, back, t)
        should_check == primary_check_due(C0, t)
    IN IF C0.ub
       THEN IF should_check /\ availP # {}
            THEN PoolRec(st1, Min(availP), FALSE, None, None)
            ELSE LET lpc1 == IF should_check THEN t ELSE C0.lpc
                 IN IF availB # {}
                    THEN IF idx0 # Min(availB)
                         THEN PoolRec(st2, Min(availB), TRUE, t, None)
                         ELSE PoolRec(st2, Min(availB), TRUE, C0.bst, lpc1)
                    ELSE PoolRec(st2, idx0, C0.ub, C0.bst, lpc1)
       ELSE IF availP # {}
            THEN PoolRec(st1, Min(availP), FALSE, None, None)
            ELSE IF availB # {}
                 THEN PoolRec(st2, Min(availB), TRUE, t, None)
                 ELSE PoolRec(st2, idx0, C0.ub, C0.bst, C0.lpc)

(* smart_codex_switch_api: [ok |-> switch_success, G |-> pool state afterwards] *)
smart_codex_switch_api(cfgs, C, cur, t) ==
    IF C.st[cur].error_count < codex_error_threshold
    THEN [ok |-> FALSE, G |-> C]
    ELSE
    LET prim == _get_primary_indices(cfgs)
        back == get_codex_backup_api_indices(cfgs)
        availP == AvailableIn(cfgs, C.st, prim, t)
        stP == FirstAvailableStatus(cfgs, C.st, prim, t)
        st0 == IF C.ub THEN stP ELSE C.st
        availB == AvailableIn(cfgs, st0, back, t)
        stB == FirstAvailableStatus(cfgs, st0, back, t)
    IN IF C.ub /\ availP # {}
       THEN [ok |-> TRUE, G |-> PoolRec(stP, Min(availP), FALSE, None, C.lpc)]
       ELSE IF availB # {}
            THEN [ok |-> TRUE, G |-> PoolRec(stB, Min(availB), TRUE, t, None)]
            ELSE [ok |-> TRUE,
                  G |-> PoolRec(stB, IF back # {} THEN Min(back) ELSE PoolSize(cfgs) - 1,
                                TRUE, t, None)]

(* The module-level choice of codex_current_config_index (lines 724-731). *)
initial_codex(cfgs, st, t) ==
    IF PoolSize(cfgs) = 0 THEN -1
    ELSE IF AvailableIn(cfgs, st, _get_primary_indices(cfgs), t) # {}
         THEN Min(AvailableIn(cfgs, st, _get_primary_indices(cfgs), t))
         ELSE 0

(* ---------------- error-handling strategy table (error_handling_strategies) ---------------- *)
http_status_codes ==
    [c \in {401, 404, 429, 500} |->
        CASE c = 401 -> "switch_api"
          [] c = 500 -> "switch_api"
          [] c = 429 -> "strategy_retry"
          [] c = 404 -> "normal_retry"]

network_errors ==
    [e \in {"ReadError", "ConnectError", "ReadTimeout"} |->
        CASE e = "ReadError" -> "switch_api"
          [] e = "ConnectError" -> "normal_retry"
          [] e = "ReadTimeout" -> "strategy_retry"]

switch_api_codes == {c \in DOMAIN http_status_codes : http_status_codes[c] = "switch_api"}

no_retry_codes == {c \in DOMAIN http_status_codes : http_status_codes[c] = "normal_retry"}

(* TimeoutConfig.get_strategy_retry_status_codes *)
get_strategy_retry_status_codes ==
    LET retry_codes == {c \in DOMAIN http_status_codes : http_status_codes[c] = "strategy_retry"}
    IN IF retry_codes # {} THEN retry_codes
       ELSE {400, 404, 429, 500, 502, 503, 520, 521, 522, 524}

(* TimeoutConfig.get_network_error_strategy *)
get_network_error_strategy(e) ==
    IF e \in DOMAIN network_errors THEN network_errors[e] ELSE "switch_api"

(* ---------------- upstream outcomes ---------------- *)
HttpCodes == {200, 404, 418, 429, 500}

Http(c) == [kind |-> "http", code |-> c, exc |-> "none"]

Exc(e) == [kind |-> "exc", code |-> 0, exc |-> e]

Outcomes == {Http(c) : c \in HttpCodes} \cup {Exc(e) : e \in DOMAIN network_errors}

(* What has arrived of the body of a response when its stream ends:    *)
(* chunks with usage data, chunks without, chunks whose first one is    *)
(* an error event, or no chunk at all.                                  *)
Bodies == {"usage", "no_usage", "error_event", "empty"}

(* ---------------- the retry ladder (READ_TIMEOUT_RETRY_CONFIGS) ---------------- *)
LadderLen == 1

(* Where an upstream request goes: a messages-pool entry, a responses-pool *)
(* entry, a rung of the retry ladder, or the dedicated OpenAI-to-Claude    *)
(* configuration.                                                          *)
PoolTarget(i) == [kind |-> "pool", i |-> i]

CodexTarget(i) == [kind |-> "codex", i |-> i]

LadderTarget(k) == [kind |-> "ladder", i |-> k]

OpenAITarget == [kind |-> "openai", i |-> 0]

NoTarget == [kind |-> "none", i |-> 0]

NoResp == [status |-> 0, from |-> NoTarget, open |-> FALSE]

VARIABLES API_CONFIGS, api_status, current_config_index, is_using_backup,
          backup_start_time, last_primary_check_time,
          CODEX_CONFIGS, codex_api_status, codex_current_config_index,
          codex_is_using_backup, codex_backup_start_time, codex_last_primary_check_time,
          codex_timeout_extra_seconds, codex_success_count, now,
          req,      \* the locals of the request reverse_proxy is handling
          obs,      \* what an observer has seen of that request
          served,   \* how many requests have come in
          streak,   \* how many requests, counted from the first one, have
                    \* each ended with status 500 from the pool's first entry
          rewriter, \* the stream rewriter of the response being streamed
          fs,         \* the directory of the usage file and the files in it
          file_lock,  \* who holds TokenStatsManager.file_lock
          recorder,   \* the threads calling record_usage
          reader,     \* a reader of the usage file
          resetter,   \* the handler resetting the statistics
          store_log,  \* what has been done to the usage file so far
          handler,    \* the requests being handled at the same time
          pool_log,   \* the calls the last step of a handler made on a pool
          _thinking_states,   \* OpenAIToClaude._thinking_states
          translation, \* the streams being translated for OpenAI clients
          READ_TIMEOUT_RETRY_CONFIGS,   \* the retry ladder in force
          _all_configs,     \* ConfigManager._all_configs: every section of the configuration file
          classified,       \* the answer being classified and the table it is classified by
          caller,           \* the threads inside a function that takes a lock
          codex_stream      \* the Responses streams being read

vars == <<API_CONFIGS, api_status, current_config_index, is_using_backup,
          backup_start_time, last_primary_check_time,
          CODEX_CONFIGS, codex_api_status, codex_current_config_index,
          codex_is_using_backup, codex_backup_start_time, codex_last_primary_check_time,
          codex_timeout_extra_seconds, codex_success_count, now, req, obs, served, streak,
          rewriter, fs, file_lock, recorder, reader, resetter, store_log,
          handler, pool_log, _thinking_states, translation,
          READ_TIMEOUT_RETRY_CONFIGS, _all_configs, classified, caller, codex_stream>>

storevars == <<fs, file_lock, recorder, reader, resetter, store_log>>

concvars == <<handler, pool_log>>

thinkvars == <<_thinking_states, translation>>

adminvars == <<READ_TIMEOUT_RETRY_CONFIGS, _all_configs>>

latevars == <<classified, caller, codex_stream>>

poolvars == <<api_status, current_config_index, is_using_backup,
              backup_start_time, last_primary_check_time>>

codexvars == <<codex_api_status, codex_current_config_index, codex_is_using_backup,
               codex_backup_start_time, codex_last_primary_check_time,
               codex_timeout_extra_seconds, codex_success_count>>

Globals == PoolRec(api_status, current_config_index, is_using_backup,
                   backup_start_time, last_primary_check_time)

SetGlobals(G) ==
    /\ api_status' = G.st
    /\ current_config_index' = G.idx
    /\ is_using_backup' = G.ub
    /\ backup_start_time' = G.bst
    /\ last_primary_check_time' = G.lpc
    /\ \A i \in DOMAIN G.st : G.st[i].error_count <= MaxErrorCount

CodexGlobals == PoolRec(codex_api_status, codex_current_config_index, codex_is_using_backup,
                        codex_backup_start_time, codex_last_primary_check_time)

SetCodexGlobals(C) ==
    /\ codex_api_status' = C.st
    /\ codex_current_config_index' = C.idx
    /\ codex_is_using_backup' = C.ub
    /\ codex_backup_start_time' = C.bst
    /\ codex_last_primary_check_time' = C.lpc
    /\ \A i \in DOMAIN C.st : C.st[i].error_count <= MaxErrorCount

(* The adaptive stream timeout of the responses pool. *)
Adaptive == [extra |-> codex_timeout_extra_seconds, count |-> codex_success_count]

SetAdaptive(A) ==
    /\ codex_timeout_extra_seconds' = A.extra
    /\ codex_success_count' = A.count
    /\ A.extra <= MaxExtraSeconds

(* The dialects a run is sent: a run with a responses pool configured is  *)
(* sent Responses requests, a run without one Messages and Chat           *)
(* Completions requests.                                                  *)
Clients == IF PoolSize(CODEX_CONFIGS) = 0 THEN {"claude", "openai"} ELSE {"codex"}

(* The messages pools whose runs are followed for MaxRequests requests: *)
(* the pool [A primary, B backup] and the pool with two backup entries.  *)
(* Runs with the other messages pools handle one request less.           *)
LongRunPools ==
    { Pool(<<Entry("primary", AllDays), Entry("backup", AllDays)>>),
      Pool(<<Entry("primary", {0}), Entry("backup", AllDays), Entry("backup", AllDays)>>) }

(* How many requests a run handles and how far its clock goes. *)
RequestLimit ==
    IF PoolSize(CODEX_CONFIGS) # 0 THEN MaxCodexRequests
    ELSE IF API_CONFIGS \in LongRunPools THEN MaxRequests
    ELSE MaxRequests - 1

ClockLimit == IF PoolSize(CODEX_CONFIGS) = 0 THEN MaxTime ELSE MaxCodexTime

IdleReq ==
    [pc |-> "idle", client |-> "claude", retry_attempt |-> 0,
     url |-> NoTarget, sent_to |-> NoTarget, upstream_resp |-> NoResp,
     last_error_status_code |-> None, last_error_strategy |-> "none",
     should_record_error_after_retry |-> FALSE, extended_switch_count |-> 0,
     stream_start_time |-> None, stream_total_timeout |-> 0]

(* What of the pool a request is compared against when it ends. *)
Snapshot(G) == [st |-> G.st, idx |-> G.idx, ub |-> G.ub]

(* What the step just taken saw of a call of smart_switch_api: the pool *)
(* state before and after the call, and switch_success.                 *)
NoSwitch ==
    [called |-> FALSE, ok |-> FALSE, pre |-> PoolRec(<<>>, 0, FALSE, None, None),
     post |-> PoolRec(<<>>, 0, FALSE, None, None)]

Switched(G, sw) == [called |-> TRUE, ok |-> sw.ok, pre |-> G, post |-> sw.G]

(* No response is being streamed. *)
IdleRewriter ==
    [upstream |-> <<>>, unread |-> <<>>, line_buffer |-> <<>>, sent |-> <<>>, pc |-> "idle",
     events |-> <<>>,       \* the events the upstream streams
     all_chunks |-> <<>>,   \* the chunks collected for a client that asked for no stream
     response |-> [object |-> "none", content |-> <<>>, finish_reason |-> "none"]]

FreshObs ==
    [main_attempts |-> 0, ladder_attempts |-> 0, ext_iterations |-> 0,
     usage_updates |-> 0, client_status |-> 0, served_by |-> NoTarget,
     only_strategy_retry |-> TRUE, step |-> "none", body |-> "none", end |-> "none",
     client |-> "none",
     retry_client |-> "none",   \* the client instance the last attempt was sent with
     client_sends |-> 0,        \* how many requests have been sent with that instance
     gave_up |-> FALSE,         \* an extended retry loop has ended without a response
     error |-> "none",          \* type and code of the error body the proxy has made
     only_switch_api |-> TRUE,  \* every failure so far was classified switch_api
     tried |-> {},              \* where the attempts of the request have been sent to
     pool0 |-> Snapshot(PoolRec(<<>>, 0, FALSE, None, None)), sw |-> NoSwitch]

(* ---------------- token_stats.py: the usage file ---------------- *)
NumRecorders == 2

MaxRecords == 3

MaxReads == 2

MaxResets == 1

(* json.dump hands the text to the file in this many writes. *)
Chunks == 2

Recorders == 1..NumRecorders

Inodes == 1..(NumRecorders + 2)

Models == {"m1", "m2"}

Usages == {[model |-> "m1", total_tokens |-> 1], [model |-> "m2", total_tokens |-> 2]}

NoUsage == [model |-> "none", total_tokens |-> 0]

_get_empty_stats_structure ==
    [total_requests |-> 0, total_tokens |-> 0, by_model |-> [m \in Models |-> 0]]

(* A file: the statistics its text encodes and how much of the text is there. *)
NoData == [val |-> _get_empty_stats_structure, written |-> 0]

Whole(stats) == [val |-> stats, written |-> Chunks]

Absent == [present |-> FALSE, val |-> _get_empty_stats_structure]

Version(stats) == [present |-> TRUE, val |-> stats]

IdleRecorder == [pc |-> "idle", usage |-> NoUsage, stats |-> _get_empty_stats_structure]

IdleReader == [pc |-> "idle", fd |-> None, since |-> 0, upto |-> 0, loaded |-> FALSE,
               outcome |-> "none", read |-> NoData]

(* TokenStatsManager.__init__ has made the file with empty statistics. *)
StoreAtStart ==
    /\ fs = [stats_file |-> 1,
             temp |-> [w \in Recorders |-> None],
             data |-> [i \in Inodes |-> IF i = 1 THEN Whole(_get_empty_stats_structure)
                                        ELSE NoData]]
    /\ file_lock = None
    /\ recorder = [w \in Recorders |-> IdleRecorder]
    /\ reader = IdleReader
    /\ resetter = [pc |-> "idle"]
    /\ store_log = [versions |-> <<Version(_get_empty_stats_structure)>>,
                    committed |-> <<>>, reset_at |-> {},
                    records |-> 0, reads |-> 0, resets |-> 0]

(* ---------------- requests handled at the same time ---------------- *)
NumHandlers == 2

MaxPoolRequests == 3

(* ---------------- openai_adapter.py: the thinking state of the stream translator ---------------- *)
NumStreams == 2     \* translated streams that may be in flight together

StreamIds == 1..NumStreams

(* the id the upstream gives the message of stream s *)
UpstreamMessageId(s) == IF s = 1 THEN "msg_1" ELSE IF s = 2 THEN "msg_2" ELSE "msg_3"

(* No stream is being translated. *)
IdleStream == [pc |-> "idle", events |-> <<>>, done |-> 0, out |-> <<>>]

ThinkAtStart ==
    /\ _thinking_states = {}
    /\ translation = [s \in StreamIds |-> IdleStream]

Handlers == 1..NumHandlers

(* The configuration a handler reads: the entries of its pool, the retry *)
(* ladder and the strategy table.                                       *)
Config(entries, ladder, strategies) ==
    [entries |-> entries, ladder |-> ladder, strategies |-> strategies]

NoConfig == Config(<<>>, <<>>, <<>>)

(* No request: captured is the configuration in force when the request *)
(* came in, last what its last step read and did.                      *)
IdleHandler ==
    [pc |-> "idle", client |-> "none", captured |-> NoConfig,
     last |-> [step |-> "none", code |-> 0, read |-> NoConfig]]

MaxEdits == 2       \* edits of the configuration in a run

MaxEntries == 2     \* entries the configuration file lists for a pool

(* An entry as the configuration file lists it. *)
Managed(e, enabled) == [type |-> e.type, time_enabled |-> e.time_enabled, enabled |-> enabled]

(* get_enabled_api_configs, get_enabled_codex_configs and *)
(* get_enabled_retry_configs                              *)
get_enabled_configs(configs) ==
    LET on == SelectSeq(configs, LAMBDA c : c.enabled)
    IN Pool([k \in 1..Len(on) |-> Entry(on[k].type, on[k].time_enabled)])

get_enabled_retry_configs(configs) ==
    LET on == SelectSeq(configs, LAMBDA c : c.enabled)
    IN [k \in 1..Len(on) |-> on[k].target]

(* No answer is being classified. *)
NoOutcome == [kind |-> "none", code |-> 0, exc |-> "none"]

Unclassified == [stored |-> [k \in {} |-> "none"], outcome |-> NoOutcome, handled |-> "none"]

NumCallers == 2      \* how many threads call the functions that take a lock

Callers == 1..NumCallers

NumResponseStreams == 2   \* how many Responses streams are read at the same time

ResponseStreams == 1..NumResponseStreams

(* No stream is being read. *)
NotStreaming == [pc |-> "idle", total |-> 0]

(* No thread is inside a function that takes a lock. *)
NotCalling == [todo |-> <<>>, held |-> <<>>, io |-> {}]

LateAtStart ==
    /\ classified = Unclassified
    /\ caller = [c \in Callers |-> NotCalling]
    /\ codex_stream = [s \in ResponseStreams |-> NotStreaming]

(* The configuration file the process is started with: the pools' entries, *)
(* all enabled, the rungs of the ladder and the strategy table.            *)
AdminAtStart ==
    /\ _all_configs =
           [api_configs |-> [k \in 1..PoolSize(API_CONFIGS) |-> Managed(API_CONFIGS[k - 1], TRUE)],
            codex_configs |-> [k \in 1..PoolSize(CODEX_CONFIGS) |-> Managed(CODEX_CONFIGS[k - 1], TRUE)],
            retry_configs |-> [k \in 1..LadderLen |-> [target |-> LadderTarget(k - 1), enabled |-> TRUE]],
            error_handling_strategies |-> http_status_codes]
    /\ READ_TIMEOUT_RETRY_CONFIGS = get_enabled_retry_configs(_all_configs.retry_configs)

ConcAtStart ==
    /\ handler = [h \in Handlers |-> IdleHandler]
    /\ pool_log = [ops |-> <<>>, begun |-> 0, edits |-> 0]

Init ==
    /\ \/ API_CONFIGS \in PoolConfigs /\ CODEX_CONFIGS = Pool(<<>>)
       \/ API_CONFIGS = Pool(<<Entry("primary", AllDays)>>) /\ CODEX_CONFIGS \in CodexPoolConfigs
    /\ now = 0
    /\ LET G == ensure_current_api_index(API_CONFIGS,
                    PoolRec(_init_status_dict(API_CONFIGS), -1, FALSE, None, None), 0, TRUE)
       IN /\ api_status = G.st
          /\ current_config_index = G.idx
          /\ is_using_backup = G.ub
          /\ backup_start_time = G.bst
          /\ last_primary_check_time = G.lpc
    /\ codex_api_status = _init_status_dict(CODEX_CONFIGS)
    /\ codex_current_config_index = initial_codex(CODEX_CONFIGS, codex_api_status, 0)
    /\ codex_is_using_backup = FALSE
    /\ codex_backup_start_time = None
    /\ codex_last_primary_check_time = None
    /\ codex_timeout_extra_seconds = 0
    /\ codex_success_count = 0
    /\ req = IdleReq
    /\ obs = FreshObs
    /\ served = 0
    /\ streak = 0
    /\ rewriter = IdleRewriter
    /\ StoreAtStart
    /\ ConcAtStart
    /\ ThinkAtStart
    /\ AdminAtStart
    /\ LateAtStart

(* Time passes while the handler is suspended: between requests, in the *)
(* back-off sleep before an iteration, waiting for an upstream, or     *)
(* waiting for the next chunk of a Responses stream.                   *)
Tick ==
    /\ now < ClockLimit
    /\ req.pc \in {"idle", "loop", "main_sent", "resend_sent", "ladder_sent", "ft1_sent", "ft2_sent",
                    "streaming"}
    /\ now' = now + 1
    /\ UNCHANGED <<API_CONFIGS, poolvars, CODEX_CONFIGS, codexvars, req, obs, served, streak, rewriter, storevars, concvars, thinkvars, adminvars, latevars>>

(* ---------------- helpers of reverse_proxy ---------------- *)
(* A selection made now.  The argument is evaluated once, before the call. *)
Sel(G) == CHOOSE R \in {get_current_config(API_CONFIGS, g, now) : g \in {G}} : TRUE

(* An error recorded twice over. *)
record_api_error_twice(G) ==
    [G EXCEPT !.st = _record_error_core(
                         _record_error_core(G.st, G.idx, now, api_error_threshold),
                         G.idx, now, api_error_threshold)]

record_api_error(G) ==
    [G EXCEPT !.st = _record_error_core(G.st, G.idx, now, api_error_threshold)]

(* get_current_codex_config called now; get_current_codex_info calls it too. *)
CodexSel(C) == CHOOSE R \in {get_current_codex_config(CODEX_CONFIGS, c, now) : c \in {C}} : TRUE

(* record_codex_error(codex_current_config_index, ...) *)
record_codex_error(C) ==
    [C EXCEPT !.st = _record_error_core(C.st, C.idx, now, codex_error_threshold)]

(* validate_and_replace_user_key, build_upstream_url and                  *)
(* get_current_api_info after a switch: each of them selects again.       *)
RebuildAfterSwitch(G, client) ==
    IF client = "claude" THEN Sel(Sel(Sel(G))) ELSE Sel(Sel(G))

UrlAfter(G, client, old) == IF client = "claude" THEN PoolTarget(G.idx) ELSE old

RecordAfterRetry_never(G, r) == G

(* The errors recorded once the attempts are used up (lines 3893-3908 and 4226-4241). *)
RecordAfterRetry(G, r) ==
    IF r.client = "codex" \/ ~r.should_record_error_after_retry THEN G
    ELSE IF r.last_error_strategy = "switch_api" /\ r.last_error_status_code # None
         THEN record_api_error(G)
    ELSE IF r.last_error_strategy = "strategy_retry"
         THEN record_api_error(G)
    ELSE IF r.last_error_strategy = "normal_retry" /\ r.last_error_status_code # None
         THEN record_api_error(G)
    ELSE G

(* The handler is waiting for an upstream to answer. *)
WaitingPcs == {"main_sent", "resend_sent", "ladder_sent", "ft1_sent", "ft2_sent"}

(* What a step of the handler leaves: the messages pool G, the responses *)
(* pool C, the adaptive timeout A, the request's locals r, and what has  *)
(* been observed o.                                                      *)
Step(G, C, A, r, o) == [G |-> G, C |-> C, A |-> A, r |-> r, o |-> o]

Res(G, r, o) == Step(G, CodexGlobals, Adaptive, r, [o EXCEPT !.sw = NoSwitch])

(* The result of a step that called smart_switch_api on pool state G0. *)
SwRes(G, r, o, G0, sw) == Step(G, CodexGlobals, Adaptive, r, [o EXCEPT !.sw = Switched(G0, sw)])

(* The same for a step of a Responses request on the responses pool. *)
CodexRes(C, r, o) == Step(Globals, C, Adaptive, r, [o EXCEPT !.sw = NoSwitch])

CodexSwRes(C, r, o, C0, sw) == Step(Globals, C, Adaptive, r, [o EXCEPT !.sw = Switched(C0, sw)])

(* The client instance of the last attempt after a step.  Every send  *)
(* of an attempt goes out on an httpx.AsyncClient made for it (lines    *)
(* 3319-3334, 3646, 3731, 3821, 3962-3976, 4134-4148).  When its answer *)
(* has come, the client is closed wherever the response is closed       *)
(* (lines 3444-3445, 3535-3536, 3575-3576, 3666-3667, 3751-3752,        *)
(* 3843-3844, 4030-4031, 4202-4203) and after an exception (lines 3590, *)
(* 3671, 3756, 3869, 4040, 4218); it stays open with a response that is *)
(* kept.  Other steps leave it as they say.                             *)
ClientAfter(r0, res) ==
    IF res.r.pc \in WaitingPcs THEN "open"
    ELSE IF r0.pc \in WaitingPcs
         THEN IF res.r.upstream_resp.open THEN "open" ELSE "closed"
    ELSE res.o.retry_client

(* The step's result becomes the next state. *)
Apply(result) ==
    \E res \in {result} :
    /\ SetGlobals(res.G)
    /\ SetCodexGlobals(res.C)
    /\ SetAdaptive(res.A)
    /\ req' = IF res.r.pc \in WaitingPcs THEN res.r ELSE [res.r EXCEPT !.sent_to = NoTarget]
    /\ obs' = [res.o EXCEPT !.retry_client = ClientAfter(req, res),
                             !.client_sends = IF res.r.pc \in WaitingPcs THEN 1 ELSE @,
                             !.tried = IF res.r.pc \in WaitingPcs THEN @ \cup {res.r.sent_to}
                                       ELSE @]
    /\ served' = IF req.pc = "idle" THEN served + 1 ELSE served
    /\ streak' = IF /\ res.r.pc = "done"
                    /\ streak = served' - 1
                    /\ res.o.client_status = 500
                    /\ res.o.served_by = PoolTarget(0)
                 THEN streak + 1 ELSE streak
    /\ UNCHANGED <<API_CONFIGS, CODEX_CONFIGS, now, rewriter, storevars, concvars, thinkvars, adminvars, latevars>>

(* The response is returned to the client: the handler is done. *)
Finish(G, r, o, status) ==
    Res(G, [IdleReq EXCEPT !.pc = "done"],
        [o EXCEPT !.client_status = status, !.served_by = r.upstream_resp.from,
                  !.step = "finish"])

(* The proxy answers with a response of its own making. *)
Answer(G, o, status) ==
    Res(G, [IdleReq EXCEPT !.pc = "done"],
        [o EXCEPT !.client_status = status, !.served_by = NoTarget, !.step = "finish"])

Closed(code, from) == [status |-> code, from |-> from, open |-> FALSE]

Opened(code, from) == [status |-> code, from |-> from, open |-> TRUE]

MainTarget(G, r) == IF r.client = "claude" THEN PoolTarget(G.idx) ELSE OpenAITarget

(* max_retries of one request (lines 3290-3294) *)
max_retries_of(client) ==
    IF client = "codex" THEN (IF LadderLen > 0 THEN LadderLen ELSE 2) ELSE max_retries

(* `continue` of the for loop over range(max_retries): the next iteration, *)
(* or the code after the loop when the range is used up.                   *)
Continue(r) ==
    IF r.retry_attempt + 1 < max_retries_of(r.client)
    THEN [r EXCEPT !.pc = "loop", !.retry_attempt = @ + 1]
    ELSE [r EXCEPT !.pc = "post"]

AfterExcept_again(r) == [r EXCEPT !.pc = "loop", !.retry_attempt = @ + 1]

(* End of the except block (lines 3880-3909): back off and iterate, or,   *)
(* after the last attempt, go on to record the error.                     *)
AfterExcept(r) ==
    IF r.retry_attempt < max_retries_of(r.client) - 1
    THEN [r EXCEPT !.pc = "loop", !.retry_attempt = @ + 1]
    ELSE [r EXCEPT !.pc = "exhausted"]

StrategyFlags_unset(r) == r

StrategyFlags(r) ==
    [r EXCEPT !.last_error_strategy = "strategy_retry",
              !.should_record_error_after_retry = TRUE]

(* The strategy-retry section of the except block (lines 3771-3878). *)
StrategySection(G, r, o) ==
    IF r.retry_attempt < LadderLen
    THEN Res(G, [r EXCEPT !.pc = "ladder_sent", !.sent_to = LadderTarget(r.retry_attempt)],
             [o EXCEPT !.ladder_attempts = @ + 1, !.step = "ladder_send"])
    ELSE Res(G, AfterExcept(StrategyFlags(r)), [o EXCEPT !.step = "ladder_skip"])

(* ---------------- reverse_proxy: entry ---------------- *)
(* "type" and "code" of the error body for a key that is not valid (lines 2952-2956) *)
invalid_api_key == "authentication_error/invalid_api_key"

(* A request with a user key that is not in USER_KEY_MAPPING.  The base  *)
(* URL of a Responses request is looked up before the key is checked.    *)
ReqReject_selecting(c) ==
    /\ req.pc = "idle"
    /\ served < RequestLimit
    /\ c \in Clients
    /\ Apply(Answer(Sel(Globals), [FreshObs EXCEPT !.pool0 = Snapshot(Globals), !.client = c,
                                                   !.error = invalid_api_key], 401))

ReqReject(c) ==
    /\ req.pc = "idle"
    /\ served < RequestLimit
    /\ c \in Clients
    /\ Apply(IF c = "codex"
             THEN CodexRes(CodexSel(CodexGlobals), [IdleReq EXCEPT !.pc = "done"],
                           [FreshObs EXCEPT !.pool0 = Snapshot(CodexGlobals), !.client = c,
                                            !.client_status = 401, !.step = "finish",
                                            !.error = invalid_api_key])
             ELSE Answer(Globals, [FreshObs EXCEPT !.pool0 = Snapshot(Globals), !.client = c,
                                                   !.error = invalid_api_key], 401))

(* An OpenAI-format request whose body cannot be converted. *)
ReqConvertFail ==
    /\ req.pc = "idle"
    /\ served < RequestLimit
    /\ "openai" \in Clients
    /\ Apply(Answer(Sel(Globals), [FreshObs EXCEPT !.pool0 = Snapshot(Globals),
                                                   !.client = "openai"], 400))

(* A Responses request up to the attempt loop: the base URL comes from   *)
(* the selection made first (line 2909), then the key is validated, the  *)
(* info line is printed and the key of the entry is fetched (line 2979). *)
CodexReqStart(G, C) ==
    LET C1 == CodexSel(C)
        C3 == CodexSel(CodexSel(C1))
        r == [IdleReq EXCEPT !.pc = "loop", !.client = "codex", !.url = CodexTarget(C1.idx)]
    IN Step(Sel(G), C3, Adaptive, r,
            [FreshObs EXCEPT !.pool0 = Snapshot(C), !.client = "codex", !.step = "start"])

(* Key validation, the info line and build_upstream_url each select. *)
ReqStart(c) ==
    /\ req.pc = "idle"
    /\ served < RequestLimit
    /\ c \in Clients
    /\ LET G1 == Sel(Globals)
           G3 == IF c = "claude" THEN Sel(Sel(G1)) ELSE G1
           r == [IdleReq EXCEPT !.pc = "loop", !.client = c,
                                !.url = MainTarget(G3, [client |-> c])]
       IN Apply(IF c = "codex" THEN CodexReqStart(Globals, CodexGlobals)
                ELSE Res(G3, r, [FreshObs EXCEPT !.pool0 = Snapshot(Globals), !.client = c,
                                                 !.step = "start"]))

(* ---------------- reverse_proxy: the attempt loop ---------------- *)
(* Loop top: get_current_config, then the request is sent to upstream_url. *)
SendMain ==
    /\ req.pc = "loop"
    /\ Apply(IF req.client = "codex"
             THEN CodexRes(CodexSel(CodexGlobals), [req EXCEPT !.pc = "main_sent", !.sent_to = req.url],
                           [obs EXCEPT !.main_attempts = @ + 1, !.step = "main_send"])
             ELSE Res(Sel(Globals), [req EXCEPT !.pc = "main_sent", !.sent_to = req.url],
                      [obs EXCEPT !.main_attempts = @ + 1, !.step = "main_send"]))

Failed(o, strategy) ==
    [o EXCEPT !.only_strategy_retry = @ /\ strategy = "strategy_retry",
              !.only_switch_api = @ /\ strategy = "switch_api"]

RecvMainHttp(G, r, o, code) ==
    IF code \in get_strategy_retry_status_codes
    THEN StrategySection(G, [r EXCEPT !.upstream_resp = Closed(code, r.sent_to)],
                         Failed(o, "strategy_retry"))
    ELSE IF code \in no_retry_codes
    THEN Res(record_api_error(G),
             [r EXCEPT !.pc = "post", !.upstream_resp = Opened(code, r.sent_to)],
             [Failed(o, "normal_retry") EXCEPT !.step = "normal_retry"])
    ELSE IF code \in switch_api_codes
    THEN LET sw == smart_switch_api(API_CONFIGS, G, G.idx, now)
             G1 == IF sw.ok THEN RebuildAfterSwitch(sw.G, r.client) ELSE sw.G
             r1 == [r EXCEPT !.last_error_status_code = code,
                             !.last_error_strategy = "switch_api",
                             !.should_record_error_after_retry = TRUE,
                             !.upstream_resp = Closed(code, r.sent_to),
                             !.url = IF sw.ok THEN UrlAfter(G1, r.client, r.url) ELSE r.url]
         IN SwRes(G1, Continue(r1),
                  [Failed(o, "switch_api") EXCEPT !.step = IF sw.ok THEN "switched" ELSE "switch_api"],
                  G, sw)
    ELSE IF code < 400
    THEN Res(G, [r EXCEPT !.pc = "post", !.upstream_resp = Opened(code, r.sent_to)],
             [o EXCEPT !.step = "success"])
    ELSE IF r.retry_attempt < max_retries - 1
    THEN Res(G, Continue([r EXCEPT !.upstream_resp = Closed(code, r.sent_to)]),
             [Failed(o, "none") EXCEPT !.step = "unlisted"])
    ELSE Res(G, [r EXCEPT !.pc = "post", !.upstream_resp = Opened(code, r.sent_to)],
             [Failed(o, "none") EXCEPT !.step = "unlisted"])

RecvMainExc(G, r, o, e) ==
    LET strategy == get_network_error_strategy(e)
        r1 == IF e \in {"ReadError", "ConnectError"} /\ strategy = "normal_retry"
              THEN [r EXCEPT !.last_error_status_code = 503,
                             !.last_error_strategy = "normal_retry",
                             !.should_record_error_after_retry = TRUE]
              ELSE r
        o1 == Failed(o, strategy)
    IN IF e \in {"ReadError", "ConnectError"} /\ strategy = "switch_api"
       THEN LET sw == smart_switch_api(API_CONFIGS, G, G.idx, now)
                G1 == IF r.client = "claude" THEN Sel(Sel(sw.G)) ELSE Sel(sw.G)
            IN IF sw.ok
               THEN SwRes(G1, [r1 EXCEPT !.pc = "resend_sent", !.sent_to = MainTarget(G1, r)],
                          [o1 EXCEPT !.main_attempts = @ + 1, !.step = "resend"], G, sw)
               ELSE SwRes(sw.G, AfterExcept(r1), [o1 EXCEPT !.step = "net_switch_fail"], G, sw)
       ELSE IF strategy = "strategy_retry"
       THEN StrategySection(G, r1, o1)
       ELSE Res(G, AfterExcept(r1), [o1 EXCEPT !.step = "net_normal"])

(* The status handling for a Responses request: no strategy retry, and  *)
(* a switch_api status is recorded at once, before the switch is tried. *)
CodexRecvMainHttp(C, r, o, code) ==
    IF code \in no_retry_codes
    THEN CodexRes(record_codex_error(C),
                  [r EXCEPT !.pc = "post", !.upstream_resp = Opened(code, r.sent_to)],
                  [Failed(o, "normal_retry") EXCEPT !.step = "normal_retry"])
    ELSE IF code \in switch_api_codes
    THEN LET C1 == record_codex_error(C)
             sw == smart_codex_switch_api(CODEX_CONFIGS, C1, C1.idx, now)
             C2 == CodexSel(sw.G)
             C3 == IF sw.ok THEN CodexSel(C2) ELSE C2
             r1 == [r EXCEPT !.upstream_resp = Closed(code, r.sent_to),
                             !.url = CodexTarget(C2.idx)]
         IN CodexSwRes(C3, Continue(r1),
                       [Failed(o, "switch_api") EXCEPT !.step = IF sw.ok THEN "switched" ELSE "switch_api"],
                       C1, sw)
    ELSE IF code < 400
    THEN CodexRes(C, [r EXCEPT !.pc = "post", !.upstream_resp = Opened(code, r.sent_to)],
                  [o EXCEPT !.step = "success"])
    ELSE IF r.retry_attempt < max_retries_of(r.client) - 1
    THEN CodexRes(C, Continue([r EXCEPT !.upstream_resp = Closed(code, r.sent_to)]),
                  [Failed(o, "none") EXCEPT !.step = "unlisted"])
    ELSE CodexRes(C, [r EXCEPT !.pc = "post", !.upstream_resp = Opened(code, r.sent_to)],
                  [Failed(o, "none") EXCEPT !.step = "unlisted"])

(* The exception handling for a Responses request: ReadError and        *)
(* ConnectError are recorded at once; ReadTimeout is what the handler   *)
(* raises when the upstream has not answered within the connect timeout, *)
(* after recording the error (lines 3420-3431).                         *)
CodexRecvMainExc(C, r, o, e) ==
    CodexRes(record_codex_error(C), AfterExcept(r), [Failed(o, "none") EXCEPT !.step = "net_normal"])

RecvMain(out) ==
    /\ req.pc = "main_sent"
    /\ Apply(IF req.client = "codex"
             THEN IF out.kind = "http"
                  THEN CodexRecvMainHttp(CodexGlobals, req, obs, out.code)
                  ELSE CodexRecvMainExc(CodexGlobals, req, obs, out.exc)
             ELSE IF out.kind = "http"
             THEN RecvMainHttp(Globals, req, obs, out.code)
             ELSE RecvMainExc(Globals, req, obs, out.exc))

(* The answer to the request re-sent after a ReadError/ConnectError switch. *)
RecvResend(out) ==
    /\ req.pc = "resend_sent"
    /\ Apply(IF out.kind = "http" /\ out.code < 400
             THEN Res(Globals, [req EXCEPT !.pc = "post",
                                           !.upstream_resp = Opened(out.code, req.sent_to)],
                      [obs EXCEPT !.step = "success"])
             ELSE IF out.kind = "http"
             THEN Res(Globals, AfterExcept([req EXCEPT !.upstream_resp = Closed(out.code, req.sent_to)]),
                      [obs EXCEPT !.step = "resend_fail"])
             ELSE Res(Globals, AfterExcept(req),
                      [obs EXCEPT !.step = "resend_fail"]))

(* The answer of a retry-ladder entry. *)
RecvLadder(out) ==
    /\ req.pc = "ladder_sent"
    /\ Apply(IF out.kind = "http" /\ out.code < 400
             THEN Res(Globals, [req EXCEPT !.pc = "post",
                                           !.upstream_resp = Opened(out.code, req.sent_to)],
                      [obs EXCEPT !.step = "ladder_success"])
             ELSE IF out.kind = "http"
             THEN Res(Globals,
                      AfterExcept(StrategyFlags([req EXCEPT !.upstream_resp = Closed(out.code, req.sent_to)])),
                      [obs EXCEPT !.step = "ladder_fail"])
             ELSE Res(Globals, AfterExcept(StrategyFlags(req)),
                      [obs EXCEPT !.step = "ladder_fail"]))

(* ---------------- reverse_proxy: after the last failed attempt ---------------- *)
max_api_count == PoolSize(IF req.client = "codex" THEN CODEX_CONFIGS ELSE API_CONFIGS)

max_extended_switches_four == 4 * max_api_count

max_extended_switches == 3 * max_api_count

(* Lines 3887-3930: the error of the request is recorded once, then the   *)
(* extended retry starts if any status code is configured as switch_api.  *)
Exhausted ==
    /\ req.pc = "exhausted"
    /\ LET G1 == RecordAfterRetry(Globals, req)
       IN Apply(IF switch_api_codes # {}
                THEN Res(G1, [req EXCEPT !.pc = "ft1", !.extended_switch_count = 0],
                         [obs EXCEPT !.step = "exhausted"])
                ELSE Answer(G1, obs, 502))

(* One iteration of an extended retry loop up to its send (lines 3934-4010 *)
(* and 4106-4182); `giveup` is what leaving the loop without a response    *)
(* leads to.                                                               *)
ExtendedSwitch(G, r, o, sent_pc, giveup) ==
    IF r.extended_switch_count < max_extended_switches
    THEN LET sw == smart_switch_api(API_CONFIGS, G, G.idx, now)
             G1 == RebuildAfterSwitch(sw.G, r.client)
         IN IF sw.ok
            THEN SwRes(G1, [r EXCEPT !.pc = sent_pc, !.extended_switch_count = @ + 1,
                                     !.url = UrlAfter(G1, r.client, r.url),
                                     !.sent_to = UrlAfter(G1, r.client, r.url)],
                       [o EXCEPT !.ext_iterations = @ + 1, !.step = "ext_send"], G, sw)
            ELSE [giveup EXCEPT !.o.sw = Switched(G, sw)]
    ELSE giveup

(* The same iteration for a Responses request: get_current_codex_config *)
(* gives the URL, get_current_codex_info selects once more.             *)
CodexExtendedSwitch(C, r, o, sent_pc, giveup) ==
    IF r.extended_switch_count < max_extended_switches
    THEN LET sw == smart_codex_switch_api(CODEX_CONFIGS, C, C.idx, now)
             C1 == CodexSel(sw.G)
             C2 == CodexSel(C1)
         IN IF sw.ok
            THEN CodexSwRes(C2, [r EXCEPT !.pc = sent_pc, !.extended_switch_count = @ + 1,
                                          !.url = CodexTarget(C1.idx),
                                          !.sent_to = CodexTarget(C1.idx)],
                            [o EXCEPT !.ext_iterations = @ + 1, !.step = "ext_send"], C, sw)
            ELSE [giveup EXCEPT !.o.sw = Switched(C, sw)]
    ELSE giveup

Ft1Switch ==
    /\ req.pc = "ft1"
    /\ Apply(IF req.client = "codex"
             THEN CodexExtendedSwitch(CodexGlobals, req, obs, "ft1_sent",
                                      Answer(Globals, [obs EXCEPT !.gave_up = TRUE], 502))
             ELSE ExtendedSwitch(Globals, req, obs, "ft1_sent",
                                 Answer(Globals, [obs EXCEPT !.gave_up = TRUE], 502)))

(* The answer to an extended-retry attempt of a Responses request that  *)
(* is no success: a connect timeout goes on to the next iteration with  *)
(* nothing recorded, anything else is recorded first.                   *)
CodexExtendedFail(C, r, o, out, pc) ==
    CodexRes(IF out = Exc("ReadTimeout") THEN C ELSE record_codex_error(C),
             [r EXCEPT !.pc = pc], [o EXCEPT !.step = "ext_fail"])

Ft1Recv(out) ==
    /\ req.pc = "ft1_sent"
    /\ Apply(IF out.kind = "http" /\ out.code < 400
             THEN Res(Globals, [req EXCEPT !.pc = "post",
                                           !.upstream_resp = Opened(out.code, req.sent_to)],
                      [obs EXCEPT !.step = "ext_success"])
             ELSE IF req.client = "codex"
             THEN CodexExtendedFail(CodexGlobals, req, obs, out, "ft1")
             ELSE Res(record_api_error(Globals), [req EXCEPT !.pc = "ft1"],
                      [obs EXCEPT !.step = "ext_fail"]))

(* ---------------- reverse_proxy: after the attempt loop ---------------- *)
(* Lines 4059-4104. *)
Post ==
    /\ req.pc = "post"
    /\ LET G == IF req.client = "codex" THEN CodexGlobals ELSE Globals
           i == G.idx
           G1 == IF G.st[i].error_count > 0 \/ G.st[i].cooldown_until # None
                 THEN [G EXCEPT !.st[i] = NormalStatus] ELSE G
       IN Apply(IF req.upstream_resp.status < 400
                THEN IF req.client = "codex"
                     THEN CodexRes(G1, [req EXCEPT !.pc = "respond"], [obs EXCEPT !.step = "reset"])
                     ELSE Res(G1, [req EXCEPT !.pc = "respond"], [obs EXCEPT !.step = "reset"])
                ELSE IF req.upstream_resp.status \in switch_api_codes
                THEN Res(Globals, [req EXCEPT !.pc = "ft2", !.extended_switch_count = 0,
                                        !.upstream_resp.open = FALSE],
                         [obs EXCEPT !.step = "post_switch"])
                ELSE Res(Globals, [req EXCEPT !.pc = "post2"], [obs EXCEPT !.step = "post_error"]))

Ft2Switch ==
    /\ req.pc = "ft2"
    /\ Apply(IF req.client = "codex"
             THEN CodexExtendedSwitch(CodexGlobals, req, obs, "ft2_sent",
                                      Res(Globals, [req EXCEPT !.pc = "post2"],
                                          [obs EXCEPT !.step = "ext_giveup", !.gave_up = TRUE]))
             ELSE ExtendedSwitch(Globals, req, obs, "ft2_sent",
                                 Res(Globals, [req EXCEPT !.pc = "post2"],
                                     [obs EXCEPT !.step = "ext_giveup", !.gave_up = TRUE])))

Ft2Recv(out) ==
    /\ req.pc = "ft2_sent"
    /\ Apply(IF out.kind = "http" /\ out.code < 400
             THEN Res(Globals, [req EXCEPT !.pc = "post2",
                                           !.upstream_resp = Opened(out.code, req.sent_to)],
                      [obs EXCEPT !.step = "ext_success"])
             ELSE IF out.kind = "http" /\ out.code \notin switch_api_codes
             THEN Res(Globals, [req EXCEPT !.pc = "post2",
                                           !.upstream_resp = Opened(out.code, req.sent_to)],
                      [obs EXCEPT !.step = "ext_other"])
             ELSE IF req.client = "codex"
             THEN CodexExtendedFail(CodexGlobals, req, obs, out, "ft2")
             ELSE Res(record_api_error(Globals), [req EXCEPT !.pc = "ft2"],
                      [obs EXCEPT !.step = "ext_fail"]))

(* Lines 4226-4309: the error kept for the end of the loop is recorded;   *)
(* a 401/403 then tries one more switch.  The request it builds goes to   *)
(* retry_client, which every path that leaves a 401/403 here has already  *)
(* closed, so send raises and the response stays as it was.               *)
Post2 ==
    /\ req.pc = "post2"
    /\ LET G1 == IF req.upstream_resp.status >= 400 THEN RecordAfterRetry(Globals, req) ELSE Globals
           sw == smart_switch_api(API_CONFIGS, G1, G1.idx, now)
           retry_401 == req.client # "codex" /\ req.upstream_resp.status \in {401, 403}
           G2 == IF retry_401
                 THEN IF sw.ok THEN RebuildAfterSwitch(sw.G, "claude") ELSE sw.G
                 ELSE G1
       IN Apply(IF retry_401
                THEN SwRes(G2, [req EXCEPT !.pc = "respond"],
                           [obs EXCEPT !.step = "post2",
                                       !.client_sends = IF sw.ok THEN @ + 1 ELSE @], G1, sw)
                ELSE Res(G2, [req EXCEPT !.pc = "respond"], [obs EXCEPT !.step = "post2"]))

handle_detected_error_recording(G) ==
    smart_switch_api(API_CONFIGS, record_api_error(G), G.idx, now)

(* handle_detected_error, for an error event whose text names an error code *)
handle_detected_error(G) == smart_switch_api(API_CONFIGS, G, G.idx, now)

(* The body is read: first-chunk error detection, then the usage record. *)
ReadBody_recording_always(G, r, o, body, status) ==
    Finish(G, r, [o EXCEPT !.usage_updates = @ + 1, !.body = body], status)

ReadBody(G, r, o, body, status) ==
    IF body = "error_event"
    THEN [Finish(handle_detected_error(G).G, r, [o EXCEPT !.body = body], status)
            EXCEPT !.o.sw = Switched(G, handle_detected_error(G))]
    ELSE Finish(G, r, [o EXCEPT !.usage_updates = IF body = "usage" THEN @ + 1 ELSE @,
                                !.body = body], status)

ReadStream_recording_break(G, r, o, body, end, status) ==
    ReadBody(IF end = "interrupted" THEN record_api_error(G) ELSE G, r,
             [o EXCEPT !.end = end], body, status)

(* stream_generator for a Messages or Chat Completions client: what has  *)
(* arrived is handled as it arrives, the way the stream ends changes    *)
(* nothing of that (lines 4713-4763).                                   *)
ReadStream(G, r, o, body, end, status) ==
    ReadBody(G, r, [o EXCEPT !.end = end], body, status)

(* How the stream of a response ends: the upstream ends it, the total   *)
(* timeout of a Responses stream runs out, or the connection breaks     *)
(* (peer closed connection, incomplete chunked read, connection reset,  *)
(* a read timeout of the HTTP client).                                  *)
StreamEnds == {"complete", "timeout", "interrupted"}

(* The finally block of stream_generator closes retry_client (lines   *)
(* 4779-4784); the returns of a JSONResponse (lines 4336 and 4443-4457) *)
(* have no such block.                                                 *)
stream_generator_finally(res) ==
    [res EXCEPT !.o.retry_client = IF @ = "none" THEN "none" ELSE "closed"]

(* A success counted whether or not the timeout has been raised *)
Succeeded_counting_always(A) ==
    IF A.count + 1 >= 3 THEN [extra |-> 0, count |-> 0] ELSE [A EXCEPT !.count = @ + 1]

(* Lines 4764-4777: a Responses stream has ended without interruption. *)
Succeeded(A) ==
    IF A.extra > 0
    THEN IF A.count + 1 >= 3 THEN [extra |-> 0, count |-> 0] ELSE [A EXCEPT !.count = @ + 1]
    ELSE A

(* codex_timeout_extra_seconds += codex_increment; codex_success_count = 0 *)
timed_out(A, codex_increment) == [extra |-> A.extra + codex_increment, count |-> 0]

TimedOut_keeping_count(A) == [A EXCEPT !.extra = @ + codex_timeout_increment]

(* Lines 4504-4508 and 4525-4529: the total timeout has run out. *)
TimedOut(A) == timed_out(A, codex_timeout_increment)

(* stream_generator starts on a Responses request (lines 4474-4483):    *)
(* the total timeout of the stream is fixed from the extra seconds of   *)
(* this moment.                                                         *)
StartStream ==
    /\ req.pc = "respond"
    /\ req.client = "codex"
    /\ Apply(CodexRes(CodexGlobals,
                      [req EXCEPT !.pc = "streaming", !.stream_start_time = now,
                                  !.stream_total_timeout = codex_base_timeout + codex_timeout_extra_seconds],
                      [obs EXCEPT !.step = "stream_start"]))

(* The stream of a Responses request is read (lines 4474-4821): no      *)
(* first-chunk error handling; the total timeout records an error on    *)
(* the entry that is current when it runs out.                          *)
CodexReadBody(C, A, r, o, body, end, status) ==
    Step(Globals,
         IF end = "timeout" THEN record_codex_error(C) ELSE C,
         IF end = "timeout" THEN TimedOut(A)
         ELSE IF end = "complete" THEN Succeeded(A) ELSE A,
         [IdleReq EXCEPT !.pc = "done"],
         [o EXCEPT !.usage_updates = IF body = "usage" THEN @ + 1 ELSE @, !.body = body,
                   !.end = end,
                   !.client_status = status, !.served_by = r.upstream_resp.from,
                   !.step = "finish", !.sw = NoSwitch])

(* The response kept from the loop has been closed: reading it raises   *)
(* at once, which is no interruption to the generator (lines 4757-4777). *)
CodexReadClosed(A, r, o, status) ==
    Step(Globals, CodexGlobals, Succeeded(A), [IdleReq EXCEPT !.pc = "done"],
         [o EXCEPT !.client_status = status, !.served_by = r.upstream_resp.from,
                   !.step = "finish", !.sw = NoSwitch])

(* Lines 4311-4864: the response handed to the client.  Whether the     *)
(* client asked for a stream (user_wants_stream) is read here for the   *)
(* first time that it makes a difference.  The stream of a Responses    *)
(* request ends by its total timeout once that has run out, and in no   *)
(* other way then (lines 4492-4529).  A stream that breaks ends         *)
(* the generator: StreamingResponse has been returned by then, and      *)
(* max_stream_retries is 1, so nothing is sent to an upstream again.    *)
(* A break while the whole body is collected for a client that asked    *)
(* for no stream is answered 500.                                       *)
Respond(body, user_wants_stream, end) ==
    /\ req.pc = IF req.client = "codex" THEN "streaming" ELSE "respond"
    /\ req.client \in {"claude", "codex"} => user_wants_stream
    /\ req.client # "codex" => end \in {"complete", "interrupted"}
    /\ req.client = "codex" =>
          /\ (end = "timeout") = (now - req.stream_start_time >= req.stream_total_timeout)
          /\ ~req.upstream_resp.open => body = "empty"
    /\ (req.client = "openai" /\ req.upstream_resp.status >= 400) => end = "complete"
    /\ LET status == req.upstream_resp.status
           convert == req.client = "openai"
       IN Apply(IF req.client = "codex"
                THEN stream_generator_finally(
                     IF req.upstream_resp.open \/ end = "timeout"
                     THEN CodexReadBody(CodexGlobals, Adaptive, req, obs, body, end, status)
                     ELSE CodexReadClosed(Adaptive, req, obs, status))
                ELSE IF status >= 400 /\ convert /\ req.upstream_resp.open
                THEN Finish(Globals, req, obs, status)
                ELSE IF convert /\ ~user_wants_stream
                THEN IF req.upstream_resp.open
                     THEN IF end = "interrupted"
                          THEN Answer(Globals, [obs EXCEPT !.end = end], 500)
                          ELSE ReadStream(Globals, req, obs, body, end, status)
                     ELSE Answer(Globals, obs, 500)
                ELSE stream_generator_finally(
                     IF req.upstream_resp.open
                     THEN ReadStream(Globals, req, obs, body, end, status)
                     ELSE Finish(Globals, req, obs, status)))

(* The response has been delivered; the handler's locals are gone. *)
Return ==
    /\ req.pc = "done"
    /\ req' = IdleReq
    /\ obs' = FreshObs
    /\ UNCHANGED <<API_CONFIGS, poolvars, CODEX_CONFIGS, codexvars, now, served, streak, rewriter, storevars, concvars, thinkvars, adminvars, latevars>>

Next ==
    \/ Tick
    \/ Return
    \/ \E c \in {"claude", "openai", "codex"} : ReqReject(c)
    \/ ReqConvertFail
    \/ \E c \in {"claude", "openai", "codex"} : ReqStart(c)
    \/ SendMain
    \/ \E out \in Outcomes : RecvMain(out)
    \/ \E out \in Outcomes : RecvResend(out)
    \/ \E out \in Outcomes : RecvLadder(out)
    \/ Exhausted
    \/ Ft1Switch
    \/ \E out \in Outcomes : Ft1Recv(out)
    \/ Post
    \/ Ft2Switch
    \/ \E out \in Outcomes : Ft2Recv(out)
    \/ Post2
    \/ StartStream
    \/ \E body \in Bodies, w \in BOOLEAN, end \in StreamEnds : Respond(body, w, end)

Spec == Init /\ [][Next]_vars

(* ---------------- stream_generator: the SSE rewriter for OpenAI clients ---------------- *)
(* Bytes and characters are one-character strings; "0xC3" "0xA9" are the   *)
(* two bytes of the UTF-8 encoding of the character "U+00E9".  The fixed   *)
(* parts of the text json.dumps produces are written as one string each.   *)
NL == "\n"

Whitespace == {" ", "\t", "\r", NL}

DataPrefix == <<"d", "a", "t", "a", ":", " ">>

DoneLine == DataPrefix \o <<"[", "D", "O", "N", "E", "]">>

EventPrefix == <<"e", "v", "e", "n", "t", ":">>

(* The lines upstream streams are made of: an event that converts, a JSON *)
(* value that is no object, a JSON text cut short, a malformed JSON text, *)
(* the end marker, an event-type line, a line of text that is no event,   *)
(* a blank line, and text without a line end.                             *)
StreamLines ==
    { DataPrefix \o <<"{", "}", NL>>,
      DataPrefix \o <<"5", NL>>,
      DataPrefix \o <<"{", NL>>,
      DataPrefix \o <<"}", NL>>,
      DoneLine \o <<NL>>,
      EventPrefix \o <<" ", "x", NL>>,
      <<"0xC3", "0xA9", NL>>,
      <<" ", NL>>,
      <<"x">> }

MaxStreamLines == 2     \* lines in one upstream stream

RECURSIVE Concat(_)
Concat(ss) == IF ss = <<>> THEN <<>> ELSE Head(ss) \o Concat(Tail(ss))

Streams == {Concat(t) : t \in UNION {[1..n -> StreamLines] : n \in 0..MaxStreamLines}}

(* bytes.decode('utf-8', errors='ignore') of one chunk *)
RECURSIVE decode(_)
decode(b) ==
    IF b = <<>> THEN <<>>
    ELSE IF Head(b) = "0xC3"
         THEN IF Len(b) >= 2 /\ b[2] = "0xA9"
              THEN <<"U+00E9">> \o decode(SubSeq(b, 3, Len(b)))
              ELSE decode(Tail(b))
    ELSE IF Head(b) = "0xA9" THEN decode(Tail(b))
    ELSE <<Head(b)>> \o decode(Tail(b))

(* str.encode('utf-8') *)
RECURSIVE encode(_)
encode(s) ==
    IF s = <<>> THEN <<>>
    ELSE IF Head(s) = "U+00E9" THEN <<"0xC3", "0xA9">> \o encode(Tail(s))
    ELSE <<Head(s)>> \o encode(Tail(s))

RECURSIVE lstrip(_)
lstrip(s) == IF s # <<>> /\ Head(s) \in Whitespace THEN lstrip(Tail(s)) ELSE s

RECURSIVE rstrip(_)
rstrip(s) ==
    IF s # <<>> /\ s[Len(s)] \in Whitespace THEN rstrip(SubSeq(s, 1, Len(s) - 1)) ELSE s

strip(s) == rstrip(lstrip(s))

startswith(s, prefix) == Len(s) >= Len(prefix) /\ SubSeq(s, 1, Len(prefix)) = prefix

endswith(s, c) == s # <<>> /\ s[Len(s)] = c

(* str.split('\n', 1): the text before the first line end and the text after it *)
split1(s) ==
    LET k == Min({i \in 1..Len(s) : s[i] = NL})
    IN <<SubSeq(s, 1, k - 1), SubSeq(s, k + 1, Len(s))>>

(* str.split('\n') *)
RECURSIVE split(_)
split(s) ==
    IF \E i \in 1..Len(s) : s[i] = NL
    THEN <<split1(s)[1]>> \o split(split1(s)[2])
    ELSE <<s>>

(* json.loads on the payloads the lines above can carry: what kind of    *)
(* value it returns, or that it raises JSONDecodeError.                  *)
json_loads(json_str) ==
    LET doc == strip(json_str)
    IN IF doc = <<"{", "}">> THEN "dict"
       ELSE IF doc = <<"[", "]">> THEN "list"
       ELSE IF doc # <<>> /\ \A i \in 1..Len(doc) : doc[i] = "5" THEN "int"
       ELSE "JSONDecodeError"

(* convert_response_to_openai of the empty object, the one object the    *)
(* lines above carry, as json.dumps writes it; the clock reading in      *)
(* "created" is kept symbolic.                                           *)
converted_json ==
    << "{\"id\":\"chatcmpl-adapter\",\"object\":\"chat.completion\",\"created\":",
       "int(time.time())",
       ",\"model\":\"gpt-4\",\"choices\":[{\"index\":0,\"message\":{\"role\":\"assistant\",\"content\":\"",
       "{", "}",
       "\"},\"finish_reason\":\"stop\"}],\"usage\":{\"prompt_tokens\":0,\"completion_tokens\":0,\"total_tokens\":0}}" >>

error_chunk ==
    << "data: {\"error\": {\"message\": \"Response conversion failed\", \"type\": \"conversion_error\"}}",
       NL, NL >> \o DoneLine \o <<NL>>

(* ('\n'.join(converted_lines) + '\n') for a list that is not empty *)
RECURSIVE join_lines(_)
join_lines(converted_lines) ==
    IF converted_lines = <<>> THEN <<>>
    ELSE Head(converted_lines) \o <<NL>> \o join_lines(Tail(converted_lines))

Drained(line_buffer, converted_lines, raised) ==
    [line_buffer |-> line_buffer, converted_lines |-> converted_lines, raised |-> raised]

(* One complete line of the buffer (lines 4586-4619): what it adds to    *)
(* converted_lines, or that it is put back, or that converting raised.   *)
convert_line(line) ==
    IF ~startswith(line, DataPrefix) \/ line = DoneLine THEN "other"
    ELSE LET json_str == SubSeq(line, 7, Len(line))
             value == json_loads(json_str)
         IN IF value = "JSONDecodeError"
            THEN IF endswith(rstrip(json_str), "}") \/ endswith(rstrip(json_str), "]")
                 THEN "skip" ELSE "put_back"
            ELSE IF value = "dict" THEN "converted" ELSE "raised"

(* The while loop over the complete lines of the buffer (lines 4585-4619). *)
RECURSIVE drain(_, _)
drain(line_buffer, converted_lines) ==
    IF ~\E i \in 1..Len(line_buffer) : line_buffer[i] = NL
    THEN Drained(line_buffer, converted_lines, FALSE)
    ELSE LET line == strip(split1(line_buffer)[1])
             rest == split1(line_buffer)[2]
         IN IF line = <<>> THEN drain(rest, converted_lines)
            ELSE IF convert_line(line) = "converted"
                 THEN drain(rest, Append(converted_lines, DataPrefix \o converted_json))
            ELSE IF convert_line(line) = "raised"
                 THEN Drained(rest, converted_lines, TRUE)
            ELSE IF convert_line(line) = "skip" THEN drain(rest, converted_lines)
            ELSE IF convert_line(line) = "put_back"
                 THEN Drained(line \o <<NL>> \o rest, converted_lines, FALSE)
            ELSE IF line = DoneLine THEN drain(rest, Append(converted_lines, DoneLine))
            ELSE IF startswith(line, EventPrefix) THEN drain(rest, converted_lines)
            ELSE drain(rest, Append(converted_lines, line))

(* The for loop over what is left in the buffer at the end of the stream *)
(* (lines 4688-4705).                                                    *)
RECURSIVE remaining(_, _)
remaining(remaining_lines, converted_lines) ==
    IF remaining_lines = <<>> THEN Drained(<<>>, converted_lines, FALSE)
    ELSE LET line == strip(Head(remaining_lines))
             rest == Tail(remaining_lines)
         IN IF line = <<>> THEN remaining(rest, converted_lines)
            ELSE IF convert_line(line) = "converted"
                 THEN remaining(rest, Append(converted_lines, DataPrefix \o converted_json))
            ELSE IF convert_line(line) = "raised"
                 THEN Drained(<<>>, converted_lines, TRUE)
            ELSE IF convert_line(line) \in {"skip", "put_back"}
                 THEN remaining(rest, converted_lines)
            ELSE IF line = DoneLine THEN remaining(rest, Append(converted_lines, DoneLine))
            ELSE IF startswith(line, EventPrefix) THEN remaining(rest, converted_lines)
            ELSE remaining(rest, Append(converted_lines, line))

(* One chunk through the rewriter (lines 4578-4638): the buffer it       *)
(* leaves, the bytes it yields, and whether the generator has returned.  *)
Rewritten(d) ==
    IF d.raised
    THEN [line_buffer |-> d.line_buffer, yield |-> error_chunk, returned |-> TRUE]
    ELSE [line_buffer |-> d.line_buffer,
          yield |-> IF d.converted_lines # <<>> THEN encode(join_lines(d.converted_lines))
                    ELSE <<>>,
          returned |-> FALSE]

rewrite_chunk(line_buffer, chunk) == Rewritten(drain(line_buffer \o decode(chunk), <<>>))

(* The end of the stream (lines 4683-4711): the bytes it yields. *)
Flushed(d) ==
    IF ~d.raised /\ d.converted_lines # <<>> THEN encode(join_lines(d.converted_lines))
    ELSE <<>>

rewrite_end(line_buffer) ==
    IF strip(line_buffer) = <<>> THEN <<>>
    ELSE Flushed(remaining(split(strip(line_buffer)), <<>>))

(* What the client is sent when the whole stream arrives as one chunk. *)
OneChunk(c) == IF c.returned THEN c.yield ELSE c.yield \o rewrite_end(c.line_buffer)

rewrite_whole(stream) ==
    IF stream = <<>> THEN <<>> ELSE OneChunk(rewrite_chunk(<<>>, stream))

(* The upstream of an OpenAI client's request has answered. *)
OpenAIAnswered ==
    /\ API_CONFIGS = Pool(<<Entry("primary", AllDays)>>)
    /\ now = 0
    /\ api_status = _init_status_dict(API_CONFIGS)
    /\ current_config_index = 0
    /\ is_using_backup = FALSE
    /\ backup_start_time = None
    /\ last_primary_check_time = None
    /\ CODEX_CONFIGS = Pool(<<>>)
    /\ codex_api_status = _init_status_dict(CODEX_CONFIGS)
    /\ codex_current_config_index = -1
    /\ codex_is_using_backup = FALSE
    /\ codex_backup_start_time = None
    /\ codex_last_primary_check_time = None
    /\ codex_timeout_extra_seconds = 0
    /\ codex_success_count = 0
    /\ req = [IdleReq EXCEPT !.pc = "respond", !.client = "openai",
                             !.upstream_resp = Opened(200, OpenAITarget)]
    /\ obs = [FreshObs EXCEPT !.client = "openai"]
    /\ served = 1
    /\ streak = 0
    /\ StoreAtStart
    /\ ConcAtStart
    /\ ThinkAtStart
    /\ AdminAtStart
    /\ LateAtStart

(* An OpenAI client is being streamed the response of an upstream. *)
InitRw ==
    /\ OpenAIAnswered
    /\ \E stream \in Streams :
          rewriter = [IdleRewriter EXCEPT !.upstream = stream, !.unread = stream,
                                          !.pc = "reading"]

(* The next chunk of the upstream, n bytes long, arrives and is rewritten. *)
ReadChunk(n) ==
    /\ rewriter.pc = "reading"
    /\ n <= Len(rewriter.unread)
    /\ \E c \in {rewrite_chunk(rewriter.line_buffer, SubSeq(rewriter.unread, 1, n))} :
          rewriter' = [rewriter EXCEPT
                          !.unread = SubSeq(@, n + 1, Len(@)),
                          !.line_buffer = c.line_buffer,
                          !.sent = @ \o c.yield,
                          !.pc = IF c.returned THEN "returned" ELSE "reading"]
    /\ UNCHANGED <<API_CONFIGS, poolvars, CODEX_CONFIGS, codexvars, now, req, obs, served, streak, storevars, concvars, thinkvars, adminvars, latevars>>

(* StopAsyncIteration: the upstream has ended. *)
EndOfStream ==
    /\ rewriter.pc = "reading"
    /\ rewriter.unread = <<>>
    /\ rewriter' = [rewriter EXCEPT !.line_buffer = <<>>,
                                    !.sent = @ \o rewrite_end(rewriter.line_buffer),
                                    !.pc = "ended"]
    /\ UNCHANGED <<API_CONFIGS, poolvars, CODEX_CONFIGS, codexvars, now, req, obs, served, streak, storevars, concvars, thinkvars, adminvars, latevars>>

NextRw ==
    \/ \E n \in 1..Len(rewriter.unread) : ReadChunk(n)
    \/ EndOfStream

SpecRw == InitRw /\ [][NextRw]_vars

(* ---------------- reverse_proxy: the response to an OpenAI client that asked for no stream ---------------- *)
MaxMessageLines == 3    \* lines in the upstream stream of one message

MaxRawChunks == 2       \* chunks aiter_raw delivers that stream in

(* What the Messages API streams: text and thinking deltas, events of    *)
(* other types, event-type lines, the end marker, and an event whose     *)
(* JSON text is cut short.                                               *)
TextDelta(text) == [kind |-> "text_delta", text |-> text]

MessageEventsStreamed ==
    { TextDelta(<<"foo">>), TextDelta(<<" ">>), TextDelta(<<"bar">>), TextDelta(<<"U+00E9">>),
      [kind |-> "thinking_delta", text |-> <<"hm">>],
      [kind |-> "message_stop", text |-> <<>>],
      [kind |-> "event_line", text |-> <<>>],
      [kind |-> "done", text |-> <<>>],
      [kind |-> "cut", text |-> <<>>] }

TextDeltaOpen == "{\"type\":\"content_block_delta\",\"delta\":{\"type\":\"text_delta\",\"text\":\""

ThinkingDeltaOpen == "{\"type\":\"content_block_delta\",\"delta\":{\"type\":\"thinking_delta\",\"thinking\":\""

DeltaClose == "\"}}"

MessageStop == "{\"type\":\"message_stop\"}"

(* The bytes of the line the upstream writes for an event. *)
sse_line(ev) ==
    CASE ev.kind = "text_delta" ->
            DataPrefix \o <<TextDeltaOpen>> \o encode(ev.text) \o <<DeltaClose, NL>>
      [] ev.kind = "thinking_delta" ->
            DataPrefix \o <<ThinkingDeltaOpen>> \o encode(ev.text) \o <<DeltaClose, NL>>
      [] ev.kind = "message_stop" -> DataPrefix \o <<MessageStop, NL>>
      [] ev.kind = "event_line" -> EventPrefix \o <<" ", "x", NL>>
      [] ev.kind = "done" -> DoneLine \o <<NL>>
      [] ev.kind = "cut" -> DataPrefix \o <<TextDeltaOpen, "x", NL>>

RECURSIVE sse_stream(_)
sse_stream(events) ==
    IF events = <<>> THEN <<>> ELSE sse_line(Head(events)) \o sse_stream(Tail(events))

MessagesStreamed == UNION {[1..n -> MessageEventsStreamed] : n \in 0..MaxMessageLines}

(* json.loads on the payload of a line of such a stream: the event it *)
(* returns, or that it raises JSONDecodeError.                        *)
json_loads_event(json_str) ==
    LET doc == strip(json_str)
        n == Len(doc)
    IN IF doc = <<MessageStop>>
       THEN [type |-> "message_stop", delta |-> [type |-> "none", text |-> <<>>]]
       ELSE IF n >= 2 /\ doc[1] = TextDeltaOpen /\ doc[n] = DeltaClose
       THEN [type |-> "content_block_delta",
             delta |-> [type |-> "text_delta", text |-> SubSeq(doc, 2, n - 1)]]
       ELSE IF n >= 2 /\ doc[1] = ThinkingDeltaOpen /\ doc[n] = DeltaClose
       THEN [type |-> "content_block_delta",
             delta |-> [type |-> "thinking_delta", text |-> <<>>]]
       ELSE [type |-> "JSONDecodeError", delta |-> [type |-> "none", text |-> <<>>]]

(* Lines 4366-4380: what one line adds to full_content. *)
line_content(line) ==
    IF startswith(line, DataPrefix) /\ line # DoneLine
    THEN LET claude_data == json_loads_event(SubSeq(line, 7, Len(line)))
         IN IF claude_data.type = "content_block_delta" /\ claude_data.delta.type = "text_delta"
            THEN claude_data.delta.text
            ELSE <<>>
    ELSE <<>>

RECURSIVE lines_content(_)
lines_content(lines) ==
    IF lines = <<>> THEN <<>> ELSE line_content(Head(lines)) \o lines_content(Tail(lines))

RECURSIVE decode_each(_)
decode_each(all_chunks) ==
    IF all_chunks = <<>> THEN <<>> ELSE decode(Head(all_chunks)) \o decode_each(Tail(all_chunks))

response_text_chunkwise(all_chunks) == decode_each(all_chunks)

(* Lines 4353-4355: b''.join(all_chunks).decode('utf-8', errors='ignore') *)
response_text(all_chunks) == decode(Concat(all_chunks))

(* Lines 4345-4400: the chat.completion the collected chunks are made into *)
openai_response(all_chunks) ==
    [object |-> "chat.completion",
     content |-> lines_content(split(response_text(all_chunks))),
     finish_reason |-> "stop"]

(* An OpenAI client that asked for no stream is waiting for the response *)
(* of an upstream.                                                       *)
InitCollect ==
    /\ OpenAIAnswered
    /\ \E events \in MessagesStreamed :
          rewriter = [IdleRewriter EXCEPT !.events = events,
                                          !.upstream = sse_stream(events),
                                          !.unread = sse_stream(events),
                                          !.pc = "collecting"]

(* async for chunk in upstream_resp.aiter_raw(): all_chunks.append(chunk) *)
CollectChunk(n) ==
    /\ rewriter.pc = "collecting"
    /\ n <= Len(rewriter.unread)
    /\ Len(rewriter.all_chunks) + 1 < MaxRawChunks \/ n = Len(rewriter.unread)
    /\ rewriter' = [rewriter EXCEPT !.unread = SubSeq(@, n + 1, Len(@)),
                                    !.all_chunks = Append(@, SubSeq(rewriter.unread, 1, n))]
    /\ UNCHANGED <<API_CONFIGS, poolvars, CODEX_CONFIGS, codexvars, now, req, obs, served, streak, storevars, concvars, thinkvars, adminvars, latevars>>

(* The upstream has ended: the JSON response is made and returned. *)
RespondCollected ==
    /\ rewriter.pc = "collecting"
    /\ rewriter.unread = <<>>
    /\ rewriter' = [rewriter EXCEPT !.response = openai_response(rewriter.all_chunks),
                                    !.pc = "responded"]
    /\ UNCHANGED <<API_CONFIGS, poolvars, CODEX_CONFIGS, codexvars, now, req, obs, served, streak, storevars, concvars, thinkvars, adminvars, latevars>>

NextCollect ==
    \/ \E n \in 1..Len(rewriter.unread) : CollectChunk(n)
    \/ RespondCollected

SpecCollect == InitCollect /\ [][NextCollect]_vars

(* ---------------- token_stats.py: record_usage, and the handlers on the file ---------------- *)
proxyvars == <<API_CONFIGS, poolvars, CODEX_CONFIGS, codexvars, now, req, obs, served, streak,
               rewriter, concvars>>

(* The usage store is the only thing running. *)
InitStore ==
    /\ API_CONFIGS = Pool(<<Entry("primary", AllDays)>>)
    /\ now = 0
    /\ api_status = _init_status_dict(API_CONFIGS)
    /\ current_config_index = 0
    /\ is_using_backup = FALSE
    /\ backup_start_time = None
    /\ last_primary_check_time = None
    /\ CODEX_CONFIGS = Pool(<<>>)
    /\ codex_api_status = _init_status_dict(CODEX_CONFIGS)
    /\ codex_current_config_index = -1
    /\ codex_is_using_backup = FALSE
    /\ codex_backup_start_time = None
    /\ codex_last_primary_check_time = None
    /\ codex_timeout_extra_seconds = 0
    /\ codex_success_count = 0
    /\ req = IdleReq
    /\ obs = FreshObs
    /\ served = 0
    /\ streak = 0
    /\ rewriter = IdleRewriter
    /\ StoreAtStart
    /\ ConcAtStart
    /\ ThinkAtStart
    /\ AdminAtStart
    /\ LateAtStart

(* Steps 2 to 6 of record_usage: the statistics with one more call counted. *)
updated(stats, usage) ==
    [total_requests |-> stats.total_requests + 1,
     total_tokens |-> stats.total_tokens + usage.total_tokens,
     by_model |-> [stats.by_model EXCEPT ![usage.model] = @ + 1]]

(* The inodes that have a name or are open in some thread. *)
Referenced(f, fds) ==
    ({f.stats_file} \cup {f.temp[w] : w \in Recorders} \cup fds) \ {None}

fresh_inode(f, fds) ==
    CHOOSE i \in Inodes \ Referenced(f, fds) : \A j \in Inodes \ Referenced(f, fds) : i <= j

(* Writing the new text into the usage file itself, not into a sibling. *)
mkstemp_in_place(f, w, fds) ==
    IF f.stats_file = None
    THEN [f EXCEPT !.temp[w] = fresh_inode(f, fds), !.data[fresh_inode(f, fds)] = NoData]
    ELSE [f EXCEPT !.temp[w] = f.stats_file, !.data[f.stats_file] = NoData]

(* tempfile.mkstemp in the directory of the usage file: a new, empty file. *)
mkstemp(f, w, fds) ==
    [f EXCEPT !.temp[w] = fresh_inode(f, fds), !.data[fresh_inode(f, fds)] = NoData]

(* One write of json.dump into the temporary file. *)
write(f, w, stats) ==
    [f EXCEPT !.data[f.temp[w]] = [val |-> stats, written |-> @.written + 1]]

(* os.replace(temp_path, self.stats_file) *)
os_replace(f, w) == [f EXCEPT !.stats_file = f.temp[w], !.temp[w] = None]

(* os.remove(stats_file) *)
os_remove(f) == [f EXCEPT !.stats_file = None]

(* A lock that lets every thread in. *)
acquirable_always(lock) == TRUE

(* with self.file_lock: the lock can be taken when nobody holds it. *)
acquirable(lock) == lock = None

(* record_usage is called, and the caller gets the lock. *)
RecordUsage(w, usage) ==
    /\ recorder[w].pc = "idle"
    /\ store_log.records < MaxRecords
    /\ acquirable(file_lock)
    /\ file_lock' = w
    /\ recorder' = [recorder EXCEPT ![w] = [IdleRecorder EXCEPT !.pc = "exists", !.usage = usage]]
    /\ store_log' = [store_log EXCEPT !.records = @ + 1]
    /\ UNCHANGED <<fs, reader, resetter, proxyvars, thinkvars, adminvars, latevars>>

(* os.path.exists(self.stats_file), and the empty skeleton if it does not. *)
Exists(w) ==
    /\ recorder[w].pc = "exists"
    /\ recorder' = [recorder EXCEPT ![w] =
                      IF fs.stats_file # None THEN [@ EXCEPT !.pc = "load"]
                      ELSE [@ EXCEPT !.pc = "mkstemp",
                                     !.stats = updated(_get_empty_stats_structure, recorder[w].usage)]]
    /\ UNCHANGED <<fs, file_lock, reader, resetter, store_log, proxyvars, thinkvars, adminvars, latevars>>

(* open and json.load, then the increments; a file that has gone or does *)
(* not parse raises, and the except clause drops the call.              *)
Load(w) ==
    /\ recorder[w].pc = "load"
    /\ recorder' = [recorder EXCEPT ![w] =
                      IF fs.stats_file = None THEN [@ EXCEPT !.pc = "failed"]
                      ELSE IF fs.data[fs.stats_file].written < Chunks THEN [@ EXCEPT !.pc = "failed"]
                      ELSE [@ EXCEPT !.pc = "mkstemp",
                                     !.stats = updated(fs.data[fs.stats_file].val, recorder[w].usage)]]
    /\ UNCHANGED <<fs, file_lock, reader, resetter, store_log, proxyvars, thinkvars, adminvars, latevars>>

Mkstemp(w) ==
    /\ recorder[w].pc = "mkstemp"
    /\ fs' = mkstemp(fs, w, {reader.fd})
    /\ recorder' = [recorder EXCEPT ![w].pc = "write"]
    /\ UNCHANGED <<file_lock, reader, resetter, store_log, proxyvars, thinkvars, adminvars, latevars>>

Write(w) ==
    /\ recorder[w].pc = "write"
    /\ fs' = write(fs, w, recorder[w].stats)
    /\ recorder' = [recorder EXCEPT ![w].pc =
                      IF fs'.data[fs.temp[w]].written >= Chunks THEN "replace" ELSE "write"]
    /\ UNCHANGED <<file_lock, reader, resetter, store_log, proxyvars, thinkvars, adminvars, latevars>>

Replace(w) ==
    /\ recorder[w].pc = "replace"
    /\ fs' = os_replace(fs, w)
    /\ recorder' = [recorder EXCEPT ![w].pc = "release"]
    /\ store_log' = [store_log EXCEPT
                        !.versions = Append(@, Version(fs.data[fs.temp[w]].val)),
                        !.committed = Append(@, recorder[w].usage)]
    /\ UNCHANGED <<file_lock, reader, resetter, proxyvars, thinkvars, adminvars, latevars>>

(* Leaving the with block, after the write or after the except clause. *)
Release(w) ==
    /\ recorder[w].pc \in {"release", "failed"}
    /\ file_lock' = None
    /\ recorder' = [recorder EXCEPT ![w] = IdleRecorder]
    /\ UNCHANGED <<fs, reader, resetter, store_log, proxyvars, thinkvars, adminvars, latevars>>

(* get_token_stats: os.path.exists, and the empty statistics if it does not. *)
GetStats ==
    /\ reader.pc = "idle"
    /\ store_log.reads < MaxReads
    /\ reader' = IF fs.stats_file = None
                 THEN [IdleReader EXCEPT !.pc = "done", !.outcome = "skeleton",
                                         !.since = Len(store_log.versions)]
                 ELSE [IdleReader EXCEPT !.pc = "open", !.since = Len(store_log.versions)]
    /\ store_log' = [store_log EXCEPT !.reads = @ + 1]
    /\ UNCHANGED <<fs, file_lock, recorder, resetter, proxyvars, thinkvars, adminvars, latevars>>

(* open(stats_file, 'r') *)
ReaderOpen ==
    /\ reader.pc = "open"
    /\ reader' = IF fs.stats_file = None THEN [reader EXCEPT !.pc = "done", !.outcome = "error"]
                 ELSE [reader EXCEPT !.pc = "load", !.fd = fs.stats_file]
    /\ UNCHANGED <<fs, file_lock, recorder, resetter, store_log, proxyvars, thinkvars, adminvars, latevars>>

(* json.load(f): the text of the open file as it is now. *)
ReaderLoad ==
    /\ reader.pc = "load"
    /\ reader' = [reader EXCEPT !.pc = "done", !.fd = None, !.read = fs.data[reader.fd],
                     !.loaded = TRUE, !.upto = Len(store_log.versions),
                     !.outcome = IF fs.data[reader.fd].written < Chunks THEN "error" ELSE "stats"]
    /\ UNCHANGED <<fs, file_lock, recorder, resetter, store_log, proxyvars, thinkvars, adminvars, latevars>>

ReaderReturn ==
    /\ reader.pc = "done"
    /\ reader' = IdleReader
    /\ UNCHANGED <<fs, file_lock, recorder, resetter, store_log, proxyvars, thinkvars, adminvars, latevars>>

(* reset_token_stats: os.path.exists *)
ResetExists ==
    /\ resetter.pc = "idle"
    /\ store_log.resets < MaxResets
    /\ resetter' = [pc |-> IF fs.stats_file # None THEN "remove" ELSE "idle"]
    /\ store_log' = [store_log EXCEPT !.resets = @ + 1]
    /\ UNCHANGED <<fs, file_lock, recorder, reader, proxyvars, thinkvars, adminvars, latevars>>

(* reset_token_stats: os.remove *)
ResetRemove ==
    /\ resetter.pc = "remove"
    /\ fs' = os_remove(fs)
    /\ resetter' = [pc |-> "idle"]
    /\ store_log' = [store_log EXCEPT
                        !.versions = Append(@, Absent),
                        !.reset_at = @ \cup {Len(store_log.committed)}]
    /\ UNCHANGED <<file_lock, recorder, reader, proxyvars, thinkvars, adminvars, latevars>>

NextStore ==
    \/ \E w \in Recorders, usage \in Usages : RecordUsage(w, usage)
    \/ \E w \in Recorders : Exists(w)
    \/ \E w \in Recorders : Load(w)
    \/ \E w \in Recorders : Mkstemp(w)
    \/ \E w \in Recorders : Write(w)
    \/ \E w \in Recorders : Replace(w)
    \/ \E w \in Recorders : Release(w)
    \/ GetStats
    \/ ReaderOpen
    \/ ReaderLoad
    \/ ReaderReturn
    \/ ResetExists
    \/ ResetRemove

SpecStore == InitStore /\ [][NextStore]_vars

(* ---------------- the pools under requests handled at the same time ---------------- *)
(* The handlers are coroutines of one event loop: what a handler does    *)
(* between two suspension points is one step.  A step's calls on a pool  *)
(* are logged with the lock each call holds while it changes the pool.   *)
InitPool ==
    /\ Init
    /\ \/ API_CONFIGS = Pool(<<Entry("primary", AllDays), Entry("backup", AllDays)>>)
       \/ CODEX_CONFIGS = Pool(<<Entry("primary", AllDays), Entry("backup", AllDays)>>)

(* key_switch_lock and codex_key_switch_lock *)
LockOfPool(pool) == IF pool = "responses" THEN "codex_key_switch_lock" ELSE "key_switch_lock"

PoolOfClient(client) == IF client = "codex" THEN "responses" ELSE "messages"

(* get_current_config: with key_switch_lock *)
get_current_config_lock == "key_switch_lock"

(* get_current_codex_config: with codex_key_switch_lock *)
get_current_codex_config_lock == "codex_key_switch_lock"

(* A switch made without taking the lock. *)
smart_switch_api_unlocked == "none"

(* smart_switch_api: with key_switch_lock *)
smart_switch_api_lock == "key_switch_lock"

(* smart_codex_switch_api: with codex_key_switch_lock *)
smart_codex_switch_api_lock == "codex_key_switch_lock"

(* record_api_error and record_codex_error take no lock. *)
record_error_lock == "none"

(* The reset after a successful response takes no lock. *)
success_reset_lock == "none"

(* One call on a pool: who made it, the lock held, the pool before and after. *)
Op(by, pool, op, held, G0, G1) ==
    [by |-> by, pool |-> pool, op |-> op, held |-> held, before |-> G0, after |-> G1]

PoolState(pool) == IF pool = "responses" THEN CodexGlobals ELSE Globals

(* The selection of the pool of a client. *)
Selection(h, client, G) ==
    IF client = "codex"
    THEN Op(h, "responses", "get_current_codex_config", get_current_codex_config_lock, G, CodexSel(G))
    ELSE Op(h, "messages", "get_current_config", get_current_config_lock, G, Sel(G))

(* record_api_error(current_config_index, ...) or record_codex_error(...) *)
Recording(h, client, G) ==
    IF client = "codex"
    THEN Op(h, "responses", "record_codex_error", record_error_lock, G, record_codex_error(G))
    ELSE Op(h, "messages", "record_api_error", record_error_lock, G, record_api_error(G))

(* smart_switch_api(current_config_index, ...) or smart_codex_switch_api(...) *)
Switching(h, client, G) ==
    IF client = "codex"
    THEN Op(h, "responses", "smart_codex_switch_api", smart_codex_switch_api_lock, G,
            smart_codex_switch_api(CODEX_CONFIGS, G, G.idx, now).G)
    ELSE Op(h, "messages", "smart_switch_api", smart_switch_api_lock, G,
            smart_switch_api(API_CONFIGS, G, G.idx, now).G)

(* Lines 4059-4082: the active entry's state is reset after a success. *)
SuccessReset(h, client, G) ==
    Op(h, PoolOfClient(client), "success_reset", success_reset_lock, G,
       IF G.st[G.idx].error_count > 0 \/ G.st[G.idx].cooldown_until # None
       THEN [G EXCEPT !.st[G.idx] = NormalStatus] ELSE G)

(* What a handler of this client reads when it reads the configuration. *)
LiveConfig(client) ==
    Config(IF client = "codex" THEN CODEX_CONFIGS ELSE API_CONFIGS,
           READ_TIMEOUT_RETRY_CONFIGS, _all_configs.error_handling_strategies)

NoStep == [step |-> "none", code |-> 0, read |-> NoConfig]

(* The step's calls become the next state; a step that makes no call *)
(* leaves the pools as they are.                                     *)
ApplyStep(h, client, ops, pc, last) ==
    /\ IF ops = <<>>
       THEN UNCHANGED <<poolvars, codex_api_status, codex_current_config_index,
                        codex_is_using_backup, codex_backup_start_time,
                        codex_last_primary_check_time>>
       ELSE IF client = "codex"
       THEN SetCodexGlobals(ops[Len(ops)].after) /\ UNCHANGED poolvars
       ELSE SetGlobals(ops[Len(ops)].after)
            /\ UNCHANGED <<codex_api_status, codex_current_config_index, codex_is_using_backup,
                           codex_backup_start_time, codex_last_primary_check_time>>
    /\ handler' = [handler EXCEPT ![h] =
                      IF pc = "idle" THEN IdleHandler
                      ELSE [pc |-> pc, client |-> client,
                            captured |-> IF handler[h].pc = "idle" THEN LiveConfig(client)
                                         ELSE handler[h].captured,
                            last |-> last]]
    /\ pool_log' = [pool_log EXCEPT
                       !.ops = ops,
                       !.begun = IF handler[h].pc = "idle" THEN @ + 1 ELSE @]
    /\ UNCHANGED <<API_CONFIGS, CODEX_CONFIGS, codex_timeout_extra_seconds, codex_success_count,
                   now, req, obs, served, streak, rewriter, storevars, thinkvars, adminvars, latevars>>

ApplyOps(h, client, ops, pc) == ApplyStep(h, client, ops, pc, NoStep)

(* A request comes in: the handler selects an entry and sends to it. *)
HandlerSelect(h, client) ==
    /\ handler[h].pc = "idle"
    /\ pool_log.begun < MaxPoolRequests
    /\ client \in Clients \cap {"claude", "codex"}
    /\ ApplyOps(h, client, <<Selection(h, client, PoolState(PoolOfClient(client)))>>, "sent")

(* The upstream answers below 400. *)
HandlerSuccess(h) ==
    /\ handler[h].pc \in {"sent", "resent"}
    /\ ApplyOps(h, handler[h].client,
                <<SuccessReset(h, handler[h].client, PoolState(PoolOfClient(handler[h].client)))>>,
                "idle")

(* The upstream answers with a status that is not retried (lines 3463-3489). *)
HandlerNoRetry(h) ==
    /\ handler[h].pc \in {"sent", "resent"}
    /\ ApplyOps(h, handler[h].client,
                <<Recording(h, handler[h].client, PoolState(PoolOfClient(handler[h].client)))>>,
                "idle")

(* The upstream answers with a switch_api status (lines 3491-3560): a   *)
(* Responses request records the error first; the switch, the selection *)
(* for the new target, and the request is sent again.                   *)
HandlerSwitch(h) ==
    /\ handler[h].pc = "sent"
    /\ LET client == handler[h].client
           G == PoolState(PoolOfClient(client))
           rec == Recording(h, client, G)
           sw == Switching(h, client, IF client = "codex" THEN rec.after ELSE G)
           sel == Selection(h, client, sw.after)
       IN ApplyOps(h, client, IF client = "codex" THEN <<rec, sw, sel>> ELSE <<sw, sel>>,
                   "resent")

(* The attempts are used up (lines 4226-4241): a Messages request *)
(* records the error it had put off.                              *)
HandlerGiveUp(h) ==
    /\ handler[h].pc = "resent"
    /\ handler[h].client = "claude"
    /\ ApplyOps(h, "claude", <<Recording(h, "claude", Globals)>>, "idle")

(* Time passes while handlers wait for their upstreams. *)
PoolTick ==
    /\ now < ClockLimit
    /\ now' = now + 1
    /\ UNCHANGED <<API_CONFIGS, poolvars, CODEX_CONFIGS, codexvars, req, obs, served, streak,
                   rewriter, storevars, concvars, thinkvars, adminvars, latevars>>

NextPool ==
    \/ \E h \in Handlers, client \in {"claude", "codex"} : HandlerSelect(h, client)
    \/ \E h \in Handlers : HandlerSuccess(h)
    \/ \E h \in Handlers : HandlerNoRetry(h)
    \/ \E h \in Handlers : HandlerSwitch(h)
    \/ \E h \in Handlers : HandlerGiveUp(h)
    \/ PoolTick

SpecPool == InitPool /\ [][NextPool]_vars

(* ---------------- the configuration edited while requests are handled ---------------- *)
(* The management endpoints are coroutines of the same event loop: each *)
(* changes the configuration and refreshes the runtime state in one     *)
(* step, between two steps of the request handlers.                     *)
AdminEntries == {Entry("primary", AllDays), Entry("backup", AllDays)}

PoolNames == {"messages", "responses"}

MaxRungs == 2       \* rungs the configuration file lists for the ladder

(* A strategy table an operator may put in place of the first one. *)
EditedStrategies ==
    [c \in {401, 404, 429, 500} |->
        CASE c = 401 -> "switch_api"
          [] c = 500 -> "normal_retry"
          [] c = 429 -> "switch_api"
          [] c = 404 -> "strategy_retry"]

StrategyTables == {http_status_codes, EditedStrategies}

(* The section of a pool in the configuration file. *)
Section(all, pool) == IF pool = "responses" THEN all.codex_configs ELSE all.api_configs

WithSection(all, pool, configs) ==
    IF pool = "responses" THEN [all EXCEPT !.codex_configs = configs]
    ELSE [all EXCEPT !.api_configs = configs]

(* configs.pop(index) *)
list_pop(configs, index) ==
    [k \in 1..(Len(configs) - 1) |-> IF k <= index THEN configs[k] ELSE configs[k + 1]]

(* configs.insert(index, item) *)
list_insert(configs, index, item) ==
    [k \in 1..(Len(configs) + 1) |->
        IF k <= index THEN configs[k]
        ELSE IF k = index + 1 THEN item
        ELSE configs[k - 1]]

(* ConfigManager.move_api_config and move_codex_config: the list after *)
(* the move, or the list as it was when the move is refused.           *)
move_config(configs, index, direction) ==
    LET n == Len(configs)
        item == configs[index + 1]
    IN CASE direction = "up" /\ index > 0 ->
               [configs EXCEPT ![index + 1] = configs[index], ![index] = item]
         [] direction = "down" /\ index < n - 1 ->
               [configs EXCEPT ![index + 1] = configs[index + 2], ![index + 2] = item]
         [] direction = "top" /\ index > 0 ->
               list_insert(list_pop(configs, index), 0, item)
         [] direction = "bottom" /\ index < n - 1 ->
               Append(list_pop(configs, index), item)
         [] OTHER -> configs

(* refresh_api_runtime_state: the messages pool state it leaves *)
refresh_api_runtime_state(all, G, t, reset_backup_state) ==
    LET cfgs == get_enabled_configs(all.api_configs)
    IN ensure_current_api_index(cfgs,
           PoolRec(_init_status_dict(cfgs), G.idx, G.ub, G.bst, G.lpc), t, reset_backup_state)

refresh_codex_runtime_state_keeping_index(all, C, t, reset_backup_state) ==
    LET cfgs == get_enabled_configs(all.codex_configs)
        st == _init_status_dict(cfgs)
    IN IF reset_backup_state
       THEN PoolRec(st, C.idx, FALSE, None, None)
       ELSE PoolRec(st, C.idx, C.ub, C.bst, C.lpc)

(* refresh_codex_runtime_state: the responses pool state it leaves *)
refresh_codex_runtime_state(all, C, t, reset_backup_state) ==
    LET cfgs == get_enabled_configs(all.codex_configs)
        st == _init_status_dict(cfgs)
        idx == initial_codex(cfgs, st, t)
    IN IF reset_backup_state
       THEN PoolRec(st, idx, FALSE, None, None)
       ELSE PoolRec(st, idx, C.ub, C.bst, C.lpc)

RefreshApi(all, reset_backup_state) ==
    /\ API_CONFIGS' = get_enabled_configs(all.api_configs)
    /\ SetGlobals(refresh_api_runtime_state(all, Globals, now, reset_backup_state))

RefreshCodex(all, reset_backup_state) ==
    /\ CODEX_CONFIGS' = get_enabled_configs(all.codex_configs)
    /\ SetCodexGlobals(refresh_codex_runtime_state(all, CodexGlobals, now, reset_backup_state))

KeepApi == UNCHANGED <<API_CONFIGS, poolvars>>

KeepCodex ==
    UNCHANGED <<CODEX_CONFIGS, codex_api_status, codex_current_config_index,
                codex_is_using_backup, codex_backup_start_time, codex_last_primary_check_time>>

(* What no management endpoint touches. *)
EditFrame ==
    /\ pool_log.edits < MaxEdits
    /\ pool_log' = [pool_log EXCEPT !.edits = @ + 1]
    /\ UNCHANGED <<codex_timeout_extra_seconds, codex_success_count, now, req, obs, served,
                   streak, rewriter, storevars, handler, thinkvars, latevars>>

(* An endpoint that has changed the section of a pool refreshes that pool. *)
EditPool(pool, configs, reset_backup_state) ==
    /\ _all_configs' = WithSection(_all_configs, pool, configs)
    /\ IF pool = "responses"
       THEN RefreshCodex(_all_configs', reset_backup_state) /\ KeepApi
       ELSE RefreshApi(_all_configs', reset_backup_state) /\ KeepCodex
    /\ UNCHANGED READ_TIMEOUT_RETRY_CONFIGS
    /\ EditFrame

(* POST /api/configs and /api/codex-configs *)
add_api_config(pool, config) ==
    /\ Len(Section(_all_configs, pool)) < MaxEntries
    /\ EditPool(pool, Append(Section(_all_configs, pool), Managed(config, TRUE)), TRUE)

(* PUT /api/configs/{index} and /api/codex-configs/{index} *)
update_api_config(pool, index, config) ==
    /\ index + 1 \in DOMAIN Section(_all_configs, pool)
    /\ EditPool(pool,
                [Section(_all_configs, pool) EXCEPT ![index + 1] = Managed(config, @.enabled)],
                FALSE)

(* DELETE /api/configs/{index} and /api/codex-configs/{index} *)
delete_api_config(pool, index) ==
    /\ index + 1 \in DOMAIN Section(_all_configs, pool)
    /\ EditPool(pool, list_pop(Section(_all_configs, pool), index), TRUE)

(* POST /api/configs/{index}/toggle and /api/codex-configs/{index}/toggle *)
toggle_api_config(pool, index) ==
    /\ index + 1 \in DOMAIN Section(_all_configs, pool)
    /\ EditPool(pool,
                [Section(_all_configs, pool) EXCEPT ![index + 1].enabled = ~@],
                Section(_all_configs, pool)[index + 1].enabled)

(* POST /api/configs/{index}/move and /api/codex-configs/{index}/move *)
move_api_config(pool, index, direction) ==
    /\ index + 1 \in DOMAIN Section(_all_configs, pool)
    /\ move_config(Section(_all_configs, pool), index, direction) # Section(_all_configs, pool)
    /\ EditPool(pool, move_config(Section(_all_configs, pool), index, direction), FALSE)

(* POST /api/configs/{index}/duplicate and /api/codex-configs/{index}/duplicate *)
duplicate_api_config(pool, index) ==
    /\ index + 1 \in DOMAIN Section(_all_configs, pool)
    /\ Len(Section(_all_configs, pool)) < MaxEntries
    /\ EditPool(pool,
                list_insert(Section(_all_configs, pool), index + 1,
                            Section(_all_configs, pool)[index + 1]),
                FALSE)

(* POST /api/retry *)
add_retry_config ==
    /\ Len(_all_configs.retry_configs) < MaxRungs
    /\ _all_configs' = [_all_configs EXCEPT !.retry_configs =
                           Append(@, [target |-> LadderTarget(Len(@)), enabled |-> TRUE])]
    /\ READ_TIMEOUT_RETRY_CONFIGS' = get_enabled_retry_configs(_all_configs'.retry_configs)
    /\ KeepApi /\ KeepCodex
    /\ EditFrame

(* DELETE /api/retry/{index} *)
delete_retry_config(index) ==
    /\ index + 1 \in DOMAIN _all_configs.retry_configs
    /\ _all_configs' = [_all_configs EXCEPT !.retry_configs = list_pop(@, index)]
    /\ READ_TIMEOUT_RETRY_CONFIGS' = get_enabled_retry_configs(_all_configs'.retry_configs)
    /\ KeepApi /\ KeepCodex
    /\ EditFrame

(* PUT /api/error-strategies: the table is read from the manager at *)
(* every use, so there is nothing to refresh.                       *)
update_error_strategies(strategies) ==
    /\ _all_configs' = [_all_configs EXCEPT !.error_handling_strategies = strategies]
    /\ UNCHANGED READ_TIMEOUT_RETRY_CONFIGS
    /\ KeepApi /\ KeepCodex
    /\ EditFrame

(* Configuration files an operator may have written by hand. *)
ReloadFiles ==
    { [api_configs |-> <<>>, codex_configs |-> <<>>, retry_configs |-> <<>>,
       error_handling_strategies |-> http_status_codes],
      [api_configs |-> <<Managed(Entry("backup", AllDays), TRUE)>>,
       codex_configs |-> <<Managed(Entry("primary", AllDays), TRUE)>>,
       retry_configs |-> <<[target |-> LadderTarget(0), enabled |-> TRUE]>>,
       error_handling_strategies |-> EditedStrategies] }

(* POST /api/config/reload: the file replaces the manager's configuration; *)
(* a section that differs from what it was is refreshed.                   *)
reload_config(file) ==
    /\ file # _all_configs
    /\ _all_configs' = file
    /\ IF file.api_configs # _all_configs.api_configs
       THEN RefreshApi(file, TRUE) ELSE KeepApi
    /\ IF file.codex_configs # _all_configs.codex_configs
       THEN RefreshCodex(file, TRUE) ELSE KeepCodex
    /\ READ_TIMEOUT_RETRY_CONFIGS' =
           IF file.retry_configs # _all_configs.retry_configs
           THEN get_enabled_retry_configs(file.retry_configs)
           ELSE READ_TIMEOUT_RETRY_CONFIGS
    /\ EditFrame

get_error_handling_strategies_captured(h) == handler[h].captured.strategies

(* config_mgr.get_error_handling_strategies(), called by the handler at *)
(* every answer (lines 3455-3460)                                       *)
get_error_handling_strategies(h) == _all_configs.error_handling_strategies

(* How the handler classifies an answer. *)
strategy_of(strategies, code) ==
    IF code < 400 THEN "success"
    ELSE IF code \in DOMAIN strategies THEN strategies[code]
    ELSE "forward"

AnswerCodes == {200, 404, 429, 500}

(* The calls on the pool and the place the handler goes to after an *)
(* answer of this strategy.                                         *)
AnswerOps(h, client, pc, strategy, ladder, G) ==
    LET rec == Recording(h, client, G)
        sw == Switching(h, client, IF client = "codex" THEN rec.after ELSE G)
        sel == Selection(h, client, sw.after)
        rec2 == Recording(h, client, sw.after)
    IN CASE strategy = "success" ->
               [ops |-> <<SuccessReset(h, client, G)>>, pc |-> "idle"]
         [] strategy = "normal_retry" ->
               [ops |-> <<rec>>, pc |-> "idle"]
         [] strategy = "switch_api" /\ pc = "sent" ->
               [ops |-> IF client = "codex" THEN <<rec, sw, sel>> ELSE <<sw, sel>>,
                pc |-> "resent"]
         [] strategy = "switch_api" /\ pc = "resent" ->
               [ops |-> IF client = "codex" THEN <<rec, sw>> ELSE <<sw, rec2>>,
                pc |-> "idle"]
         [] strategy = "strategy_retry" /\ client = "claude" ->
               IF pc = "sent" /\ Len(ladder) > 0
               THEN [ops |-> <<>>, pc |-> "rung"]
               ELSE [ops |-> <<rec>>, pc |-> "idle"]
         [] OTHER ->
               [ops |-> <<>>, pc |-> "idle"]

(* The upstream answers: the handler reads the strategy table, the *)
(* ladder and the pool as they are now.                            *)
HandlerAnswer(h, code) ==
    /\ handler[h].pc \in {"sent", "resent"}
    /\ PoolSize(LiveConfig(handler[h].client).entries) > 0
    /\ LET client == handler[h].client
           strategies == get_error_handling_strategies(h)
           todo == AnswerOps(h, client, handler[h].pc, strategy_of(strategies, code),
                             READ_TIMEOUT_RETRY_CONFIGS, PoolState(PoolOfClient(client)))
       IN ApplyStep(h, client, todo.ops, todo.pc,
                    [step |-> "answer", code |-> code,
                     read |-> Config(LiveConfig(client).entries, READ_TIMEOUT_RETRY_CONFIGS,
                                     strategies)])

(* The rung of the ladder answers (lines 3786-3880): a success is passed *)
(* on, a failure ends the attempts and the error is recorded.            *)
HandlerRung(h, ok) ==
    /\ handler[h].pc = "rung"
    /\ \/ ok /\ ApplyStep(h, "claude", <<>>, "idle", NoStep)
       \/ /\ ~ok
          /\ ApplyStep(h, "claude", <<Recording(h, "claude", Globals)>>, "idle", NoStep)

(* The pool has been emptied under the handler: current index -1 is in no *)
(* status dictionary and names no entry, so the handler's next call on    *)
(* the pool raises; record_api_error and record_codex_error have made the *)
(* dictionary entry by then.                                              *)
HandlerRaise(h, recorded) ==
    /\ handler[h].pc \in {"sent", "resent"}
    /\ PoolSize(LiveConfig(handler[h].client).entries) = 0
    /\ ApplyStep(h, handler[h].client,
                 IF recorded
                 THEN <<Recording(h, handler[h].client,
                                  PoolState(PoolOfClient(handler[h].client)))>>
                 ELSE <<>>,
                 "idle", NoStep)

MaxAdminRequests == 2    \* requests handled in a run with configuration edits

(* A request comes in while the configuration may be edited.  The edits *)
(* of a run are made within one tick of the clock.                      *)
HandlerBegin(h, client) ==
    /\ pool_log.begun < MaxAdminRequests
    /\ HandlerSelect(h, client)

NextAdmin ==
    \/ \E h \in Handlers, client \in {"claude", "codex"} : HandlerBegin(h, client)
    \/ \E h \in Handlers, code \in AnswerCodes : HandlerAnswer(h, code)
    \/ \E h \in Handlers, ok \in BOOLEAN : HandlerRung(h, ok)
    \/ \E h \in Handlers, recorded \in BOOLEAN : HandlerRaise(h, recorded)
    \/ \E pool \in PoolNames, config \in AdminEntries : add_api_config(pool, config)
    \/ \E pool \in PoolNames, index \in 0..(MaxEntries - 1), config \in AdminEntries :
           update_api_config(pool, index, config)
    \/ \E pool \in PoolNames, index \in 0..(MaxEntries - 1) : delete_api_config(pool, index)
    \/ \E pool \in PoolNames, index \in 0..(MaxEntries - 1) : toggle_api_config(pool, index)
    \/ \E pool \in PoolNames, index \in 0..(MaxEntries - 1),
          direction \in {"up", "down", "top", "bottom"} : move_api_config(pool, index, direction)
    \/ \E pool \in PoolNames, index \in 0..(MaxEntries - 1) : duplicate_api_config(pool, index)
    \/ add_retry_config
    \/ \E index \in 0..(MaxRungs - 1) : delete_retry_config(index)
    \/ \E strategies \in StrategyTables : update_error_strategies(strategies)
    \/ \E file \in ReloadFiles : reload_config(file)

SpecAdmin == InitPool /\ [][NextAdmin]_vars

(* ---------------- an answer classified by the strategy table ---------------- *)
(* A dictionary is a function on its keys; status keys are the decimal   *)
(* strings the configuration file has them as.                           *)
Digits == <<"0", "1", "2", "3", "4", "5", "6", "7", "8", "9">>

(* str(n) *)
RECURSIVE str(_)
str(n) == IF n < 10 THEN Digits[n + 1] ELSE str(n \div 10) \o Digits[(n % 10) + 1]

(* int(key) of a key that is a decimal number *)
int(key) == CHOOSE n \in 0..999 : str(n) = key

EmptyDict == [k \in {} |-> "none"]

(* d.get(key, default) *)
table_get(d, key, default) == IF key \in DOMAIN d THEN d[key] ELSE default

(* d.update(u) *)
table_update(d, u) == [k \in DOMAIN d \cup DOMAIN u |-> IF k \in DOMAIN u THEN u[k] ELSE d[k]]

(* default_strategies of ConfigManager.get_error_handling_strategies *)
default_strategies ==
    [http_status_codes |->
         [k \in {"400", "404", "408", "429", "500", "502", "503", "504", "520", "521", "522",
                 "524", "401", "403", "default"} |->
              IF k \in {"401", "403"} THEN "switch_api" ELSE "strategy_retry"],
     network_errors |->
         [k \in {"ReadError", "ConnectError", "ReadTimeout", "default"} |->
              IF k = "ReadTimeout" THEN "strategy_retry" ELSE "switch_api"]]

(* ConfigManager.get_error_handling_strategies: the stored sections laid *)
(* over the default ones.                                                *)
merged_error_handling_strategies(stored) ==
    [http_status_codes |->
         IF "http_status_codes" \in DOMAIN stored
         THEN table_update(default_strategies.http_status_codes, stored.http_status_codes)
         ELSE default_strategies.http_status_codes,
     network_errors |->
         IF "network_errors" \in DOMAIN stored
         THEN table_update(default_strategies.network_errors, stored.network_errors)
         ELSE default_strategies.network_errors]

(* [int(code) for code, strategy in http_codes.items()                   *)
(*  if strategy == ... and code != "default"]                            *)
codes_with(http_codes, strategy) ==
    {int(code) : code \in {k \in DOMAIN http_codes \ {"default"} : http_codes[k] = strategy}}

(* TimeoutConfig.get_strategy_retry_status_codes over a table *)
strategy_retry_status_codes_of(strategies) ==
    LET retry_codes == codes_with(strategies.http_status_codes, "strategy_retry")
    IN IF retry_codes # {} THEN retry_codes
       ELSE {400, 404, 429, 500, 502, 503, 520, 521, 522, 524}

(* How reverse_proxy handles a status of 400 or more that answers an     *)
(* attempt of a Messages request (lines 3437-3575): "none" is the plain  *)
(* retry of the loop.                                                    *)
status_handling(strategies, status_code) ==
    IF status_code \in strategy_retry_status_codes_of(strategies) THEN "strategy_retry"
    ELSE IF status_code \in codes_with(strategies.http_status_codes, "normal_retry")
    THEN "normal_retry"
    ELSE IF status_code \in codes_with(strategies.http_status_codes, "switch_api")
    THEN "switch_api"
    ELSE "none"

(* TimeoutConfig.get_network_error_strategy over a table *)
network_errors_get(strategies, error_type) ==
    table_get(strategies.network_errors, error_type, "switch_api")

(* How the except block handles a transport error (lines 3592-3770): the *)
(* table is asked for ReadError, ConnectError and ReadTimeout only.      *)
network_handling(strategies, error_type) ==
    IF error_type \in {"ReadError", "ConnectError", "ReadTimeout"}
    THEN network_errors_get(strategies, error_type)
    ELSE "none"

(* get_error_strategy (lines 647-675); None is "none" *)
get_error_strategy(strategies, error_code, error_type) ==
    IF error_type = "http_status_code"
    THEN table_get(strategies.http_status_codes, str(error_code),
                  table_get(strategies.http_status_codes, "default", "none"))
    ELSE IF error_type = "network_error"
    THEN table_get(strategies.network_errors, error_code,
                  table_get(strategies.network_errors, "default", "none"))
    ELSE "none"

(* The tables an operator may store. *)
StoredStatusKeys == {"404", "418", "default"}

StoredErrorKeys == {"ReadError", "default"}

StrategyNames == {"strategy_retry", "switch_api", "normal_retry"}

Dicts(keys, values) == UNION {[K -> values] : K \in SUBSET keys}

StoredTables ==
    {EmptyDict}
    \cup {[http_status_codes |-> h] : h \in Dicts(StoredStatusKeys, StrategyNames \cup {"retry"})}
    \cup {[http_status_codes |-> h, network_errors |-> n] :
              h \in Dicts({"418", "default"}, {"switch_api", "normal_retry"}),
              n \in Dicts(StoredErrorKeys, StrategyNames \cup {"retry"})}

ClassifiedStatuses == {404, 418, 429}

ClassifiedErrors == {"ReadError", "ReadTimeout", "WriteError"}

ClassifyFrame ==
    UNCHANGED <<API_CONFIGS, poolvars, CODEX_CONFIGS, codexvars, now, req, obs, served, streak,
                rewriter, storevars, concvars, thinkvars, adminvars, caller, codex_stream>>

(* ConfigManager.update_error_handling_strategies: a table that names a  *)
(* strategy there is none of is turned down.                             *)
update_error_handling_strategies(strategies) ==
    /\ classified.outcome = NoOutcome
    /\ LET valid ==
               /\ "http_status_codes" \in DOMAIN strategies =>
                      \A k \in DOMAIN strategies.http_status_codes :
                          strategies.http_status_codes[k] \in StrategyNames
               /\ "network_errors" \in DOMAIN strategies =>
                      \A k \in DOMAIN strategies.network_errors :
                          strategies.network_errors[k] \in StrategyNames
       IN classified' = IF valid THEN [classified EXCEPT !.stored = strategies] ELSE classified
    /\ ClassifyFrame

(* The upstream answers an attempt of a Messages request with a status. *)
ClassifyStatus(status_code) ==
    /\ classified.outcome = NoOutcome
    /\ classified' =
           [classified EXCEPT
               !.outcome = Http(status_code),
               !.handled = status_handling(merged_error_handling_strategies(classified.stored),
                                           status_code)]
    /\ ClassifyFrame

(* The attempt of a Messages request ends with a transport error. *)
ClassifyTransport(error_type) ==
    /\ classified.outcome = NoOutcome
    /\ classified' =
           [classified EXCEPT
               !.outcome = Exc(error_type),
               !.handled = network_handling(merged_error_handling_strategies(classified.stored),
                                            error_type)]
    /\ ClassifyFrame

(* The attempt is over. *)
ClassifyDone ==
    /\ classified.outcome # NoOutcome
    /\ classified' = [classified EXCEPT !.outcome = NoOutcome, !.handled = "none"]
    /\ ClassifyFrame

InitClassify ==
    /\ Init
    /\ API_CONFIGS = Pool(<<Entry("primary", AllDays)>>)
    /\ PoolSize(CODEX_CONFIGS) = 0

NextClassify ==
    \/ \E strategies \in StoredTables : update_error_handling_strategies(strategies)
    \/ \E status_code \in ClassifiedStatuses : ClassifyStatus(status_code)
    \/ \E error_type \in ClassifiedErrors : ClassifyTransport(error_type)
    \/ ClassifyDone

SpecClassify == InitClassify /\ [][NextClassify]_vars

(* ---------------- the messages pool while requests keep arriving ---------------- *)
MaxProbeTime == 5    \* where the clock stops in a run of selections without end

MaxProbeErrors == 2  \* cap on an entry's error_count in such a run

ProbePoolConfigs ==
    { Pool(<<Entry("primary", AllDays), Entry("backup", AllDays)>>),
      Pool(<<Entry("primary", AllDays), Entry("primary", AllDays), Entry("backup", AllDays)>>),
      Pool(<<Entry("primary", {0, 1}), Entry("backup", AllDays), Entry("backup", AllDays)>>) }

InitProbe ==
    /\ Init
    /\ API_CONFIGS \in ProbePoolConfigs
    /\ PoolSize(CODEX_CONFIGS) = 0

ProbeFrame ==
    UNCHANGED <<API_CONFIGS, CODEX_CONFIGS, codexvars, req, served, streak, rewriter, storevars,
                concvars, thinkvars, adminvars, latevars>>

(* What has just been done to the pool, and where the pool was before. *)
Done(op) ==
    [FreshObs EXCEPT !.step = op,
                     !.pool0 = Snapshot(PoolRec(<<>>, current_config_index, is_using_backup,
                                                None, None))]

(* A request arrives and get_current_config is called for it. *)
Arrive ==
    /\ SetGlobals(Sel(Globals))
    /\ obs' = Done("select")
    /\ UNCHANGED now
    /\ ProbeFrame

(* record_api_error(current_config_index, ...) *)
RecordError ==
    /\ api_status[current_config_index].error_count < MaxProbeErrors
    /\ SetGlobals(record_api_error(Globals))
    /\ obs' = Done("record")
    /\ UNCHANGED now
    /\ ProbeFrame

(* smart_switch_api(current_config_index, ...) *)
Switch ==
    /\ SetGlobals(smart_switch_api(API_CONFIGS, Globals, current_config_index, now).G)
    /\ obs' = Done("switch")
    /\ UNCHANGED now
    /\ ProbeFrame

ProbeTick ==
    /\ now < MaxProbeTime
    /\ now' = now + 1
    /\ UNCHANGED <<poolvars, obs>>
    /\ ProbeFrame

NextProbe ==
    \/ Arrive
    \/ RecordError
    \/ Switch
    \/ ProbeTick

(* Requests keep arriving, and time passes until the clock stops. *)
SpecProbe ==
    /\ InitProbe
    /\ [][NextProbe]_vars
    /\ WF_vars(Arrive)
    /\ WF_vars(ProbeTick)

(* ---------------- the pools while cooldowns are reset by hand ---------------- *)
(* The body of a reset request: {"index": i}, or no index for "all". *)
ResetBodies == {EmptyDict} \cup {[k \in {"index"} |-> i] : i \in 0..2}

(* A reset that clears the deadline and leaves the rest of the entry *)
reset_cooldown_clearing_deadline(cfgs, st, data) ==
    IF "index" \in DOMAIN data
    THEN IF /\ 0 <= data.index
            /\ data.index < PoolSize(cfgs)
            /\ data.index \in DOMAIN st
            /\ st[data.index].cooldown_until # None
         THEN [st EXCEPT ![data.index].cooldown_until = None]
         ELSE st
    ELSE [i \in DOMAIN st |->
             IF i < PoolSize(cfgs) /\ st[i].cooldown_until # None
             THEN [st[i] EXCEPT !.cooldown_until = None] ELSE st[i]]

(* What reset_api_cooldown and reset_codex_cooldown leave of the status  *)
(* dictionary: the entry named, or every entry, is made normal if its    *)
(* cooldown is set.                                                      *)
reset_cooldown(cfgs, st, data) ==
    IF "index" \in DOMAIN data
    THEN IF /\ 0 <= data.index
            /\ data.index < PoolSize(cfgs)
            /\ data.index \in DOMAIN st
            /\ st[data.index].cooldown_until # None
         THEN [st EXCEPT ![data.index] = NormalStatus]
         ELSE st
    ELSE [i \in DOMAIN st |->
             IF i < PoolSize(cfgs) /\ st[i].cooldown_until # None THEN NormalStatus ELSE st[i]]

(* POST /api/reset-cooldown *)
reset_api_cooldown(data) ==
    /\ api_status' = reset_cooldown(API_CONFIGS, api_status, data)
    /\ UNCHANGED <<API_CONFIGS, current_config_index, is_using_backup, backup_start_time,
                   last_primary_check_time, CODEX_CONFIGS, codexvars, now, req, obs, served,
                   streak, rewriter, storevars, concvars, thinkvars, adminvars, latevars>>

(* POST /api/reset-codex-cooldown *)
reset_codex_cooldown(data) ==
    /\ codex_api_status' = reset_cooldown(CODEX_CONFIGS, codex_api_status, data)
    /\ UNCHANGED <<API_CONFIGS, poolvars, CODEX_CONFIGS, codex_current_config_index,
                   codex_is_using_backup, codex_backup_start_time,
                   codex_last_primary_check_time, codex_timeout_extra_seconds,
                   codex_success_count, now, req, obs, served, streak, rewriter, storevars,
                   concvars, thinkvars, adminvars, latevars>>

NextCooldown ==
    \/ NextPool
    \/ \E data \in ResetBodies : reset_api_cooldown(data)
    \/ \E data \in ResetBodies : reset_codex_cooldown(data)

SpecCooldown == InitPool /\ [][NextCooldown]_vars

(* ---------------- Responses streams read at the same time ---------------- *)
StreamIncrement == 2     \* codex_timeout_increment of the settings while these streams run

MaxStreamTimeouts == 3   \* cap on the increments codex_timeout_extra_seconds holds

StreamFrame ==
    UNCHANGED <<API_CONFIGS, poolvars, CODEX_CONFIGS, now, req, obs, served, streak, rewriter,
                storevars, concvars, thinkvars, adminvars, classified, caller>>

KeepCodexPool ==
    UNCHANGED <<codex_api_status, codex_current_config_index, codex_is_using_backup,
                codex_backup_start_time, codex_last_primary_check_time>>

(* stream_generator starts on a Responses request (lines 4474-4483): the *)
(* extra seconds are read under codex_timeout_lock.                      *)
CodexStreamStart(s) ==
    /\ codex_stream[s].pc = "idle"
    /\ codex_stream' = [codex_stream EXCEPT ![s] = [pc |-> "streaming",
                                        total |-> codex_base_timeout + codex_timeout_extra_seconds]]
    /\ UNCHANGED <<codex_timeout_extra_seconds, codex_success_count>>
    /\ KeepCodexPool
    /\ StreamFrame

(* The total timeout of the stream runs out, or a read of it times out   *)
(* (lines 4496-4510, 4516-4531, 4722-4737): an error is recorded, and    *)
(* under codex_timeout_lock the extra seconds grow and the count is      *)
(* reset.                                                                *)
CodexStreamTimesOut(s) ==
    /\ codex_stream[s].pc = "streaming"
    /\ codex_timeout_extra_seconds < MaxStreamTimeouts * StreamIncrement
    /\ SetCodexGlobals(record_codex_error(CodexGlobals))
    /\ LET A == timed_out(Adaptive, StreamIncrement)
       IN /\ codex_timeout_extra_seconds' = A.extra
          /\ codex_success_count' = A.count
    /\ codex_stream' = [codex_stream EXCEPT ![s] = NotStreaming]
    /\ StreamFrame

(* The connection breaks: connection_interrupted, nothing is counted. *)
CodexStreamBreaks(s) ==
    /\ codex_stream[s].pc = "streaming"
    /\ codex_stream' = [codex_stream EXCEPT ![s] = NotStreaming]
    /\ UNCHANGED <<codex_timeout_extra_seconds, codex_success_count>>
    /\ KeepCodexPool
    /\ StreamFrame

(* The stream ends without interruption: the finally block counts the  *)
(* success under codex_timeout_lock (lines 4764-4777).                 *)
CodexStreamCompletes(s) ==
    /\ codex_stream[s].pc = "streaming"
    /\ LET A == Succeeded(Adaptive)
       IN /\ codex_timeout_extra_seconds' = A.extra
          /\ codex_success_count' = A.count
    /\ codex_stream' = [codex_stream EXCEPT ![s] = NotStreaming]
    /\ KeepCodexPool
    /\ StreamFrame

InitStreams ==
    /\ Init
    /\ PoolSize(CODEX_CONFIGS) > 0

NextStreams ==
    \E s \in ResponseStreams :
        \/ CodexStreamStart(s)
        \/ CodexStreamTimesOut(s)
        \/ CodexStreamBreaks(s)
        \/ CodexStreamCompletes(s)

SpecStreams == InitStreams /\ [][NextStreams]_vars

(* ---------------- the locks the callers of the pools and of the usage store take ---------------- *)
(* One thing a function does with a lock or with the outside world. *)
Acquires(lock) == [do |-> "acquire", what |-> lock]

Releases(lock) == [do |-> "release", what |-> lock]

Io(kind) == [do |-> "io", what |-> kind]

(* ConfigManager.get_timeout_settings: `with self.lock:` around the merge *)
(* of the stored settings over the defaults.                              *)
get_timeout_settings_steps == <<Acquires("config_mgr.lock"), Releases("config_mgr.lock")>>

(* print(...) *)
print_steps(printed) == IF printed THEN <<Io("print")>> ELSE <<>>

(* get_current_config: `with key_switch_lock:`; on a backup the probe    *)
(* interval is read from the settings; switches are printed.             *)
get_current_config_steps(on_backup, printed) ==
    <<Acquires("key_switch_lock")>>
    \o (IF on_backup THEN get_timeout_settings_steps ELSE <<>>)
    \o print_steps(printed)
    \o <<Releases("key_switch_lock")>>

(* get_current_codex_config, the same under codex_key_switch_lock *)
get_current_codex_config_steps(on_backup, printed) ==
    <<Acquires("codex_key_switch_lock")>>
    \o (IF on_backup THEN get_timeout_settings_steps ELSE <<>>)
    \o print_steps(printed)
    \o <<Releases("codex_key_switch_lock")>>

(* smart_switch_api: `with key_switch_lock:`; the threshold is read from *)
(* the settings; below it nothing is printed, at it the switch is.       *)
smart_switch_api_steps(below) ==
    <<Acquires("key_switch_lock")>>
    \o get_timeout_settings_steps
    \o print_steps(~below)
    \o <<Releases("key_switch_lock")>>

(* smart_codex_switch_api, the same under codex_key_switch_lock *)
smart_codex_switch_api_steps(below) ==
    <<Acquires("codex_key_switch_lock")>>
    \o get_timeout_settings_steps
    \o print_steps(~below)
    \o <<Releases("codex_key_switch_lock")>>

(* TokenStatsManager._atomic_write: the directory is looked up, the     *)
(* temporary file made and written, and moved over the usage file.      *)
atomic_write_steps == <<Io("os.path.exists"), Io("tempfile.mkstemp"), Io("json.dump"), Io("os.replace")>>

(* record_usage, were the usage file's name read from the settings *)
record_usage_steps_reading_settings(exists) ==
    <<Acquires("file_lock")>>
    \o get_timeout_settings_steps
    \o <<Io("os.path.exists")>>
    \o (IF exists THEN <<Io("json.load")>> ELSE <<>>)
    \o atomic_write_steps
    \o <<Releases("file_lock")>>

(* TokenStatsManager.record_usage: `with self.file_lock:` around reading *)
(* the usage file, counting, and _atomic_write.                          *)
record_usage_steps(exists) ==
    <<Acquires("file_lock"), Io("os.path.exists")>>
    \o (IF exists THEN <<Io("json.load")>> ELSE <<>>)
    \o atomic_write_steps
    \o <<Releases("file_lock")>>

(* The calls a thread can be making. *)
LockingCalls ==
    {get_current_config_steps(b, p) : b, p \in BOOLEAN}
    \cup {get_current_codex_config_steps(b, p) : b, p \in BOOLEAN}
    \cup {smart_switch_api_steps(b) : b \in BOOLEAN}
    \cup {smart_codex_switch_api_steps(b) : b \in BOOLEAN}
    \cup {record_usage_steps(e) : e \in BOOLEAN}

(* threading.RLock() *)
Reentrant(lock) == lock = "config_mgr.lock"

HeldBy(c) == {caller[c].held[k] : k \in 1..Len(caller[c].held)}

FreeFor(c, lock) ==
    \A d \in Callers : lock \in HeldBy(d) => (d = c /\ Reentrant(lock))

LocksFrame ==
    UNCHANGED <<API_CONFIGS, poolvars, CODEX_CONFIGS, codexvars, now, req, obs, served, streak,
                rewriter, storevars, concvars, thinkvars, adminvars, classified, codex_stream>>

(* A thread calls one of the functions. *)
Call(c, steps) ==
    /\ caller[c].todo = <<>>
    /\ caller' = [caller EXCEPT ![c] = [todo |-> steps, held |-> <<>>, io |-> {}]]
    /\ LocksFrame

(* `with lock:` is entered, once the lock is free. *)
Enter(c) ==
    /\ caller[c].todo # <<>>
    /\ Head(caller[c].todo).do = "acquire"
    /\ FreeFor(c, Head(caller[c].todo).what)
    /\ caller' = [caller EXCEPT ![c].todo = Tail(@),
                                ![c].held = Append(@, Head(caller[c].todo).what)]
    /\ LocksFrame

(* `with lock:` is left; past the outermost one the thread has returned. *)
Leave(c) ==
    /\ caller[c].todo # <<>>
    /\ Head(caller[c].todo).do = "release"
    /\ caller' = [caller EXCEPT ![c].todo = Tail(@),
                                ![c].held = SubSeq(@, 1, Len(@) - 1),
                                ![c].io = IF Len(caller[c].held) = 1 THEN {} ELSE @]
    /\ LocksFrame

(* The thread reads or writes a file, or prints. *)
DoIo(c) ==
    /\ caller[c].todo # <<>>
    /\ Head(caller[c].todo).do = "io"
    /\ caller' = [caller EXCEPT ![c].todo = Tail(@),
                                ![c].io = @ \cup {Head(caller[c].todo).what}]
    /\ LocksFrame

InitLocks ==
    /\ Init
    /\ API_CONFIGS = Pool(<<Entry("primary", AllDays)>>)
    /\ PoolSize(CODEX_CONFIGS) = 0

NextLocks ==
    \E c \in Callers :
        \/ \E steps \in LockingCalls : Call(c, steps)
        \/ Enter(c)
        \/ Leave(c)
        \/ DoIo(c)

SpecLocks == InitLocks /\ [][NextLocks]_vars

(* ---------------- OpenAIToClaude._convert_stream_chunk ---------------- *)
(* An upstream event: its type, the id in its "message" object ("absent" *)
(* when the event has no such object), the type of its content block or  *)
(* delta, and the text of its delta.                                     *)
Event(type, message, kind, text) ==
    [type |-> type, message |-> message, kind |-> kind, text |-> text]

ThinkingText == "reasoning"

AnswerText == "answer"

(* The events of one message as the Messages API streams them: only      *)
(* message_start carries the message object.  every_event tells whether  *)
(* the upstream repeats the message object in the other events too.      *)
MessageEvents(id, with_thinking, every_event) ==
    LET msg == IF every_event THEN id ELSE "absent"
    IN  <<Event("message_start", id, "none", "")>>
        \o (IF with_thinking
            THEN <<Event("content_block_start", msg, "thinking", ""),
                   Event("content_block_delta", msg, "thinking_delta", ThinkingText)>>
            ELSE <<>>)
        \o <<Event("content_block_start", msg, "text", ""),
             Event("content_block_delta", msg, "text_delta", AnswerText),
             Event("message_delta", msg, "none", ""),
             Event("message_stop", msg, "none", "")>>

(* claude_chunk.get('message', {}).get('id', 'default') *)
message_id(claude_chunk) ==
    IF claude_chunk.message = "absent" THEN "default" ELSE claude_chunk.message

(* _thinking_states is a dict; here the set of its (key, value) pairs *)
dict_get(d, k, default) == IF <<k, TRUE>> \in d THEN TRUE ELSE IF <<k, FALSE>> \in d THEN FALSE ELSE default

dict_pop(d, k) == d \ {<<k, TRUE>>, <<k, FALSE>>}

dict_set(d, k, v) == dict_pop(d, k) \cup {<<k, v>>}

RoleChunk == [delta |-> "role", content |-> "assistant", finish_reason |-> "None"]

ContentChunk(text) == [delta |-> "content", content |-> text, finish_reason |-> "None"]

FinishChunk == [delta |-> "empty", content |-> "", finish_reason |-> "stop"]

ThinkOpen == "<think>"

ThinkCloseBeforeText == "</think>\n\n"

ThinkClose == "</think>"

(* the choices of the chunk returned, and the dict afterwards *)
_convert_stream_chunk(states, claude_chunk) ==
    LET id == message_id(claude_chunk)
        in_thinking == dict_get(states, id, FALSE)
    IN  CASE claude_chunk.type = "message_start" ->
                [states |-> dict_set(states, id, FALSE), choices |-> <<RoleChunk>>]
          [] claude_chunk.type = "content_block_start" /\ claude_chunk.kind = "thinking" ->
                [states |-> dict_set(states, id, TRUE), choices |-> <<ContentChunk(ThinkOpen)>>]
          [] claude_chunk.type = "content_block_start" /\ claude_chunk.kind = "text" ->
                IF in_thinking
                THEN [states |-> dict_set(states, id, FALSE),
                      choices |-> <<ContentChunk(ThinkCloseBeforeText)>>]
                ELSE [states |-> states, choices |-> <<>>]
          [] claude_chunk.type = "content_block_delta"
                /\ claude_chunk.kind \in {"thinking_delta", "text_delta"} ->
                [states |-> states, choices |-> <<ContentChunk(claude_chunk.text)>>]
          [] claude_chunk.type = "message_stop" ->
                [states |-> dict_pop(states, id),
                 choices |-> (IF in_thinking THEN <<ContentChunk(ThinkClose)>> ELSE <<>>) \o <<FinishChunk>>]
          [] OTHER -> [states |-> states, choices |-> <<>>]

(* Does the converter read or write the dict for this event? *)
UsesThinkingState(claude_chunk) ==
    \/ claude_chunk.type \in {"message_start", "message_stop"}
    \/ claude_chunk.type = "content_block_start" /\ claude_chunk.kind \in {"thinking", "text"}

InitThink ==
    /\ Init
    /\ API_CONFIGS = Pool(<<Entry("primary", AllDays)>>)
    /\ CODEX_CONFIGS = Pool(<<>>)

(* A Chat Completions request is answered 200 with an event stream: *)
(* stream_generator starts to translate the upstream's message.     *)
OpenStream(s, with_thinking, every_event) ==
    /\ translation[s].pc = "idle"
    /\ translation' = [translation EXCEPT ![s] =
            [pc |-> "open", done |-> 0, out |-> <<>>,
             events |-> MessageEvents(UpstreamMessageId(s), with_thinking, every_event)]]
    /\ UNCHANGED <<_thinking_states, proxyvars, storevars, adminvars, latevars>>

(* stream_generator reads a chunk holding the next event of stream s and *)
(* converts it; between two chunks the event loop may run other streams. *)
ConvertEvent(s) ==
    /\ translation[s].pc = "open"
    /\ translation[s].done < Len(translation[s].events)
    /\ LET ev == translation[s].events[translation[s].done + 1]
           res == _convert_stream_chunk(_thinking_states, ev)
       IN /\ _thinking_states' = res.states
          /\ translation' = [translation EXCEPT ![s].done = @ + 1,
                                      ![s].out = @ \o res.choices,
                                      ![s].pc = IF ev.type = "message_stop" THEN "done" ELSE "open"]
    /\ UNCHANGED <<proxyvars, storevars, adminvars, latevars>>

(* The upstream or the client goes away before the message has ended: *)
(* stream_generator returns; nothing touches _thinking_states.        *)
CutStream(s) ==
    /\ translation[s].pc = "open"
    /\ translation' = [translation EXCEPT ![s].pc = "cut"]
    /\ UNCHANGED <<_thinking_states, proxyvars, storevars, adminvars, latevars>>

NextThink ==
    \/ \E s \in StreamIds, with_thinking \in BOOLEAN, every_event \in BOOLEAN :
            OpenStream(s, with_thinking, every_event)
    \/ \E s \in StreamIds : ConvertEvent(s)
    \/ \E s \in StreamIds : CutStream(s)

SpecThink == InitThink /\ [][NextThink]_vars

(* ======================= properties ======================= *)
Primaries == _get_primary_indices(API_CONFIGS)

Backups == _get_backup_indices(API_CONFIGS)

CodexPrimaries == _get_primary_indices(CODEX_CONFIGS)

CodexBackups == get_codex_backup_api_indices(CODEX_CONFIGS)

(* The pool the request an observer is watching is served from, and its *)
(* backup list.                                                         *)
PoolSeen(o) == IF o.client = "codex" THEN CODEX_CONFIGS ELSE API_CONFIGS

BackupsSeen(o) == IF o.client = "codex" THEN CodexBackups ELSE Backups

(* A pool entry passes the availability gate: its weekday bit is set and *)
(* it is not cooling down.  Every configured entry is an enabled one.    *)
AvailableOf(cfgs, st, i) ==
    /\ Weekday(now) \in cfgs[i].time_enabled
    /\ (st[i].cooldown_until = None \/ st[i].cooldown_until <= now)

Available(st, i) == AvailableOf(API_CONFIGS, st, i)

CodexAvailable(st, i) == AvailableOf(CODEX_CONFIGS, st, i)

ProbeDue ==
    \/ last_primary_check_time = None
    \/ now - last_primary_check_time >= primary_api_check_interval

CodexProbeDue ==
    \/ codex_last_primary_check_time = None
    \/ now - codex_last_primary_check_time >= primary_api_check_interval

(* Steps in which the only thing done to the messages pool is selecting. *)
SelectionStep ==
    \/ req.pc = "idle" /\ req'.pc = "loop"
    \/ req.pc = "idle" /\ req'.pc = "done" /\ obs'.client_status = 400
    \/ req.pc = "loop" /\ req'.pc = "main_sent" /\ req.client # "codex"

(* Steps in which the only thing done to the responses pool is selecting. *)
CodexSelectionStep ==
    \/ req.pc = "idle" /\ req'.pc = "loop" /\ req'.client = "codex"
    \/ req.pc = "idle" /\ req'.pc = "done" /\ obs'.client = "codex"
    \/ req.pc = "loop" /\ req'.pc = "main_sent" /\ req.client = "codex"

(* C1, as the code has it: right after a selection on the messages pool, *)
(* or on a responses pool of at least two entries, that is made while    *)
(* using_backup is false, or while the primary probe is due, using_backup *)
(* is false if at least one primary entry is available.                  *)
C1_BackupClearedBySelection ==
    [][ /\ ( /\ SelectionStep
             /\ ~is_using_backup \/ ProbeDue
             /\ \E i \in Primaries : Available(api_status', i) )
           => ~is_using_backup'
        /\ ( /\ CodexSelectionStep
             /\ PoolSize(CODEX_CONFIGS) >= 2
             /\ ~codex_is_using_backup \/ CodexProbeDue
             /\ \E i \in CodexPrimaries : CodexAvailable(codex_api_status', i) )
           => ~codex_is_using_backup' ]_vars

(* The request that has just started found the pool on backup and its   *)
(* selection took it back to an available primary.                       *)
C1_Witness ==
    /\ obs.step = "start"
    /\ obs.pool0.ub
    /\ ~is_using_backup
    /\ current_config_index \in Primaries
    /\ Available(api_status, current_config_index)

(* C1 as stated: in every reachable state, an available primary entry   *)
(* means using_backup is false.                                          *)
C1_Original ==
    /\ (\E i \in Primaries : Available(api_status, i)) => ~is_using_backup
    /\ (\E i \in CodexPrimaries : CodexAvailable(codex_api_status, i)) => ~codex_is_using_backup

(* The step just taken called smart_switch_api and it switched. *)
SwitchStep == obs'.sw.called /\ obs'.sw.ok /\ obs'.sw # obs.sw

(* C2, as the code has it: whenever at least one entry of the pool is    *)
(* available, active_index refers to an available entry after every      *)
(* selection made while using_backup is false, the primary probe is due  *)
(* or a backup entry is available, and after every error-driven switch   *)
(* made while using_backup is true or a backup entry is available.       *)
C2_ActiveIndexAvailable ==
    [][ /\ ( /\ SelectionStep
              /\ \/ ~is_using_backup
                 \/ ProbeDue
                 \/ \E b \in Backups : Available(api_status', b)
              /\ \E i \in DOMAIN API_CONFIGS : Available(api_status', i) )
           => Available(api_status', current_config_index')
        /\ ( /\ CodexSelectionStep
              /\ \/ ~codex_is_using_backup
                 \/ CodexProbeDue
                 \/ \E b \in CodexBackups : CodexAvailable(codex_api_status', b)
              /\ \E i \in DOMAIN CODEX_CONFIGS : CodexAvailable(codex_api_status', i) )
           => CodexAvailable(codex_api_status', codex_current_config_index')
        /\ ( /\ SwitchStep
              /\ \/ obs'.sw.pre.ub
                 \/ \E b \in BackupsSeen(obs') : AvailableOf(PoolSeen(obs'), obs'.sw.post.st, b)
              /\ \E i \in DOMAIN PoolSeen(obs') : AvailableOf(PoolSeen(obs'), obs'.sw.post.st, i) )
           => AvailableOf(PoolSeen(obs'), obs'.sw.post.st, obs'.sw.post.idx) ]_vars

(* An error-driven switch has just moved active_index from an entry in   *)
(* cooldown to another entry, which is available.                        *)
C2_Witness ==
    /\ obs.sw.called /\ obs.sw.ok
    /\ obs.sw.post.idx # obs.sw.pre.idx
    /\ ~AvailableOf(PoolSeen(obs), obs.sw.post.st, obs.sw.pre.idx)
    /\ AvailableOf(PoolSeen(obs), obs.sw.post.st, obs.sw.post.idx)

(* C2 as stated: after every selection and after every error-driven     *)
(* switch, active_index refers to an available entry if there is one.   *)
C2_Original ==
    [][ /\ ( /\ SelectionStep
              /\ \E i \in DOMAIN API_CONFIGS : Available(api_status', i) )
           => Available(api_status', current_config_index')
        /\ ( /\ CodexSelectionStep
              /\ \E i \in DOMAIN CODEX_CONFIGS : CodexAvailable(codex_api_status', i) )
           => CodexAvailable(codex_api_status', codex_current_config_index')
        /\ ( /\ SwitchStep
              /\ \E i \in DOMAIN PoolSeen(obs') : AvailableOf(PoolSeen(obs'), obs'.sw.post.st, i) )
           => AvailableOf(PoolSeen(obs'), obs'.sw.post.st, obs'.sw.post.idx) ]_vars

(* C3 as stated: when an upstream attempt has returned a success        *)
(* response, the error state of the pool entry that produced it is      *)
(* reset by the time the response is handed to the client.              *)
C3_SuccessResetsProducer ==
    ( /\ req.pc = "respond"
      /\ req.upstream_resp.open
      /\ req.upstream_resp.status < 400 )
    => /\ req.upstream_resp.from.kind = "pool"
          => api_status[req.upstream_resp.from.i] = NormalStatus
       /\ req.upstream_resp.from.kind = "codex"
          => codex_api_status[req.upstream_resp.from.i] = NormalStatus

(* C4: whenever recording an error brings an entry's error_count to or  *)
(* above the threshold, that same step sets cooldown_until to           *)
(* now + cooldown_seconds, which is later than now, and status to       *)
(* warning.                                                             *)
C4_ThresholdSetsCooldown ==
    [][ /\ \A i \in DOMAIN API_CONFIGS :
             ( /\ api_status'[i].error_count > api_status[i].error_count
               /\ api_status'[i].error_count >= api_error_threshold )
             => /\ api_status'[i].cooldown_until = now + api_cooldown_seconds
                /\ api_status'[i].cooldown_until > now
                /\ api_status'[i].status = "warning"
        /\ \A i \in DOMAIN CODEX_CONFIGS :
             ( /\ codex_api_status'[i].error_count > codex_api_status[i].error_count
               /\ codex_api_status'[i].error_count >= codex_error_threshold )
             => /\ codex_api_status'[i].cooldown_until = now + api_cooldown_seconds
                /\ codex_api_status'[i].cooldown_until > now
                /\ codex_api_status'[i].status = "warning" ]_vars

(* An error has just been recorded that brought the active entry to the *)
(* threshold.                                                           *)
C4_Witness ==
    /\ obs.step \in {"normal_retry", "exhausted", "post2", "ext_fail"}
    /\ api_status[current_config_index].error_count = api_error_threshold
    /\ api_status[current_config_index].cooldown_until = now + api_cooldown_seconds
    /\ api_status[current_config_index].status = "warning"

(* C5, as the code has it: a request that has reached its terminal      *)
(* outcome has updated the Usage Store once if the body handed to the   *)
(* client carried usage data and not at all otherwise, in particular    *)
(* not when it failed before any upstream attempt; never twice.         *)
C5_UsageAtMostOnce ==
    /\ obs.usage_updates <= 1
    /\ req.pc = "done" =>
         /\ obs.usage_updates = (IF obs.body = "usage" THEN 1 ELSE 0)
         /\ obs.main_attempts = 0 => obs.usage_updates = 0

(* A request has ended with a success whose body carried usage data.    *)
C5_Witness ==
    /\ req.pc = "done"
    /\ obs.client_status = 200
    /\ obs.body = "usage"
    /\ obs.usage_updates = 1

(* C5 as stated: exactly one update when the upstream completed, with a *)
(* success or with an error, and none when the request failed before    *)
(* any upstream attempt.                                                *)
C5_Original ==
    req.pc = "done" =>
        /\ obs.served_by # NoTarget => obs.usage_updates = 1
        /\ obs.main_attempts = 0 => obs.usage_updates = 0

(* The request being handled has had a strategy_retry failure and no    *)
(* failure of another class.                                            *)
StrategyOnly == obs.only_strategy_retry /\ obs.ladder_attempts > 0

ErrorState == <<api_status, current_config_index, is_using_backup>>

C8_AttemptBounds ==
    /\ obs.main_attempts <= 2 * max_retries
    /\ obs.ladder_attempts <= LadderLen

(* Every iteration of the loop has sent its request and re-sent it      *)
(* after a switch.                                                      *)
C8_Witness ==
    /\ obs.main_attempts = 2 * max_retries
    /\ req.client = "claude"
    /\ req.pc = "resend_sent"

(* C8 as stated: at most max_retries attempts to main-pool entries and  *)
(* at most len(RetryLadder) to RetryLadder entries.                     *)
C8_Original ==
    /\ req.client = "claude" => obs.main_attempts <= max_retries
    /\ obs.ladder_attempts <= LadderLen

(* C9: the extended retry makes at most 3 * pool_size switch-and-retry  *)
(* iterations; once that many are made its next step ends the retrying, *)
(* with the 502 answer or with the response kept from the loop.         *)
C9_ExtendedRetryBounded ==
    [][ /\ obs'.ext_iterations <= 3 * PoolSize(PoolSeen(obs'))
        /\ ( /\ req.pc \in {"ft1", "ft2"}
             /\ req.extended_switch_count >= 3 * PoolSize(PoolSeen(obs))
             /\ req' # req )
           => req'.pc \in {"done", "post2"} ]_vars

(* A request has made all 3 * pool_size iterations and was answered 502. *)
C9_Witness ==
    /\ req.pc = "done"
    /\ obs.ext_iterations = 3 * PoolSize(PoolSeen(obs))
    /\ obs.client_status = 502

(* The pool [A primary, B backup]. *)
TwoEntryPool ==
    /\ PoolSize(API_CONFIGS) = 2
    /\ API_CONFIGS[0].type = "primary"
    /\ API_CONFIGS[1].type = "backup"

(* C10: with pool [A primary, B backup], threshold 2 and 500 classified *)
(* switch_api, after two consecutive requests that each end with 500    *)
(* from A, A's error_count is 2 and A is in cooldown; a third request   *)
(* arriving during that cooldown selects B, sends to B, and a success   *)
(* of that attempt is what the client receives.                         *)
C10_ThirdRequestUsesBackup ==
    [][ TwoEntryPool =>
          /\ ( streak = 1 /\ streak' = 2 ) =>
                /\ api_status'[0].error_count = 2
                /\ api_status'[0].status = "warning"
                /\ api_status'[0].cooldown_until > now
          /\ ( /\ streak = 2 /\ served = 2
               /\ req.pc = "idle" /\ req'.pc = "loop" /\ req'.client = "claude"
               /\ api_status[0].cooldown_until > now ) =>
                /\ current_config_index' = 1
                /\ is_using_backup'
                /\ req'.url = PoolTarget(1)
          /\ ( /\ streak = 2 /\ served = 3
               /\ req.url = PoolTarget(1)
               /\ req.pc = "respond" /\ req'.pc = "done"
               /\ obs.main_attempts = 1 /\ obs.ext_iterations = 0
               /\ req.upstream_resp.from.kind = "pool" ) =>
                obs'.served_by = PoolTarget(1) ]_vars

(* The third request came during A's cooldown and the client has been   *)
(* given B's success.                                                   *)
C10_Witness ==
    /\ TwoEntryPool
    /\ streak = 2 /\ served = 3
    /\ req.pc = "done"
    /\ api_status[0].error_count = 2
    /\ api_status[0].cooldown_until > now
    /\ obs.served_by = PoolTarget(1)
    /\ obs.client_status = 200

(* The step in which the body of a 200 answer of the messages pool whose *)
(* first frame is an error that classifies as switch_api is read.       *)
ErrorFrameStep ==
    /\ req.pc = "respond" /\ req'.pc = "done"
    /\ req.client # "codex"
    /\ req.upstream_resp.open
    /\ req.upstream_resp.status = 200
    /\ obs'.body = "error_event"

(* C11, as the code has it: when an upstream of the messages pool       *)
(* answers 200 and its first frame carries an error that classifies as  *)
(* switch_api, the frame is forwarded to the client as part of that     *)
(* upstream's stream and the request is not retried; no error is        *)
(* recorded, and smart_switch_api is called, which moves the pool to    *)
(* another entry for later requests only if the active entry's          *)
(* error_count has reached the threshold.                               *)
C11_ErrorFrameForwarded ==
    [][ ErrorFrameStep =>
          /\ obs'.served_by = req.upstream_resp.from
          /\ obs'.client_status = 200
          /\ obs'.main_attempts = obs.main_attempts
          /\ obs'.ladder_attempts = obs.ladder_attempts
          /\ obs'.ext_iterations = obs.ext_iterations
          /\ \A i \in DOMAIN API_CONFIGS : api_status'[i].error_count <= api_status[i].error_count
          /\ obs'.sw.called
          /\ obs'.sw.ok = (api_status[current_config_index].error_count >= api_error_threshold)
          /\ ~obs'.sw.ok => UNCHANGED poolvars ]_vars

(* The client has been given the stream of a 200 answer whose first     *)
(* frame was such an error, from the entry the one attempt was sent to. *)
C11_Witness ==
    /\ req.pc = "done"
    /\ obs.client = "claude"
    /\ obs.client_status = 200
    /\ obs.body = "error_event"
    /\ obs.served_by.kind = "pool"
    /\ obs.main_attempts = 1
    /\ obs.sw.called

(* C11 as stated: the error frame of a 200 answer never reaches the     *)
(* client.                                                              *)
C11_Original ==
    ( /\ req.pc = "done"
      /\ obs.client_status = 200
      /\ obs.served_by # NoTarget )
    => obs.body # "error_event"

(* The step in which the upstream connection of the response being     *)
(* handed to the client breaks before any byte of the body has been    *)
(* sent to the client.                                                 *)
InterruptStep ==
    /\ req.pc \in {"respond", "streaming"} /\ req'.pc = "done"
    /\ obs'.end = "interrupted"
    /\ obs'.body \in {"empty", "none"}

(* C12, as the code has it: if the upstream connection closes           *)
(* abnormally while the body is read, before any body byte has been     *)
(* sent to the client, no new upstream attempt is made: the client's    *)
(* stream ends (a client that asked for no stream is answered 500), no  *)
(* error is recorded and the pools are left as they are.                *)
C12_InterruptionEndsStream ==
    [][ InterruptStep =>
          /\ obs'.main_attempts = obs.main_attempts
          /\ obs'.ladder_attempts = obs.ladder_attempts
          /\ obs'.ext_iterations = obs.ext_iterations
          /\ obs'.usage_updates = obs.usage_updates
          /\ obs'.client_status = IF obs'.body = "none" THEN 500 ELSE req.upstream_resp.status
          /\ UNCHANGED <<poolvars, codexvars>> ]_vars

(* The stream of a 200 answer has broken before its first chunk and the *)
(* request has ended after its one attempt.                             *)
C12_Witness ==
    /\ req.pc = "done"
    /\ obs.client = "claude"
    /\ obs.end = "interrupted"
    /\ obs.body = "empty"
    /\ obs.client_status = 200
    /\ obs.main_attempts = 1

(* C12 as stated: a request does not end with the upstream connection   *)
(* broken before any body byte was sent; another attempt is made.       *)
C12_Original ==
    (req.pc = "done" /\ obs.body \in {"empty", "none"}) => obs.end # "interrupted"

(* The stream of a Responses request has run into its total timeout. *)
TimeoutStep ==
    /\ req.pc = "streaming" /\ req'.pc = "done"
    /\ obs'.end = "timeout"

(* stream_generator starts on a Responses request. *)
StreamStartStep == req.pc = "respond" /\ req'.pc = "streaming"

(* C13: when the stream of a Responses request exceeds its deadline,    *)
(* extra_seconds grows by exactly the increment and successes becomes   *)
(* 0; nothing but the end of a stream changes extra_seconds, and the    *)
(* deadline a stream starts with is base + extra_seconds, so the next   *)
(* request's deadline is base + the new extra_seconds.                  *)
C13_TimeoutRaisesDeadline ==
    [][ /\ TimeoutStep =>
              /\ now - req.stream_start_time >= req.stream_total_timeout
              /\ codex_timeout_extra_seconds' = codex_timeout_extra_seconds + codex_timeout_increment
              /\ codex_success_count' = 0
        /\ req.pc # "streaming" =>
              codex_timeout_extra_seconds' = codex_timeout_extra_seconds
        /\ StreamStartStep =>
              /\ req'.stream_total_timeout = codex_base_timeout + codex_timeout_extra_seconds'
              /\ req'.stream_start_time = now ]_vars

(* After a stream that had counted one success ran into its timeout,    *)
(* the stream of the next request has started with the longer deadline. *)
C13_Witness ==
    /\ req.pc = "streaming"
    /\ served >= 3
    /\ codex_timeout_extra_seconds = 2 * codex_timeout_increment
    /\ codex_success_count = 0
    /\ req.stream_total_timeout = codex_base_timeout + 2 * codex_timeout_increment

(* The stream of a Responses request has been read to its end. *)
StreamCompletes ==
    /\ req.pc = "streaming" /\ req'.pc = "done"
    /\ obs'.end = "complete"

(* C14 as stated: successes grows by 1 exactly when a Responses stream  *)
(* completes while extra_seconds > 0 (the third success resets          *)
(* instead), and the state is reset to (0, 0) exactly when successes    *)
(* reaches 3.                                                           *)
C14_SuccessCounting ==
    [][ /\ codex_success_count' = codex_success_count + 1
           => StreamCompletes /\ codex_timeout_extra_seconds > 0
        /\ (StreamCompletes /\ codex_timeout_extra_seconds > 0)
           => IF codex_success_count + 1 >= 3
              THEN codex_timeout_extra_seconds' = 0 /\ codex_success_count' = 0
              ELSE /\ codex_success_count' = codex_success_count + 1
                   /\ codex_timeout_extra_seconds' = codex_timeout_extra_seconds
        /\ ( /\ codex_timeout_extra_seconds' = 0 /\ codex_success_count' = 0
             /\ codex_timeout_extra_seconds # 0 )
           => StreamCompletes /\ codex_success_count + 1 >= 3 ]_vars

(* An entry's cooldown is running, or has run out without being cleared. *)
CoolingDown(st, i) == st[i].cooldown_until # None /\ now < st[i].cooldown_until

CooledDown(st, i) == st[i].cooldown_until # None /\ st[i].cooldown_until <= now

(* What a selection on a pool does about cooldowns: st, idx before and  *)
(* st2, idx2 after it; ub and due are using_backup and whether the      *)
(* primary probe was due before it.                                     *)
SelectionRespectsCooldown(cfgs, prims, backs, st, idx, st2, idx2, ub, due) ==
    /\ CoolingDown(st2, idx2) =>
          /\ idx2 = idx
          /\ \A b \in backs : ~AvailableOf(cfgs, st2, b)
          /\ (\A p \in prims : ~AvailableOf(cfgs, st2, p)) \/ (ub /\ ~due)
    /\ \A i \in prims :
          (CooledDown(st, i) /\ Weekday(now) \in cfgs[i].time_enabled) => st2[i] = NormalStatus
    /\ \A i \in DOMAIN cfgs :
          (CooledDown(st, i) /\ idx2 = i /\ Weekday(now) \in cfgs[i].time_enabled)
             => st2[i] = NormalStatus
    /\ \A i \in DOMAIN cfgs : CoolingDown(st, i) => st2[i] = st[i]

(* C15, as the code has it: an entry whose cooldown_until is T is not   *)
(* available before T, and a selection made before T returns it only    *)
(* when it is the active entry already and the selection finds no entry *)
(* to move to; a selection made at or after T clears every primary      *)
(* entry enabled that day whose cooldown has run out, and the entry it  *)
(* returns if that is enabled that day (error_count 0, cooldown_until   *)
(* unset, status normal).  A responses pool of one entry returns its    *)
(* entry unexamined.                                                    *)
C15_CooldownAtSelection ==
    [][ /\ SelectionStep =>
              SelectionRespectsCooldown(API_CONFIGS, Primaries, Backups,
                                        api_status, current_config_index,
                                        api_status', current_config_index',
                                        is_using_backup, ProbeDue)
        /\ (CodexSelectionStep /\ PoolSize(CODEX_CONFIGS) >= 2) =>
              SelectionRespectsCooldown(CODEX_CONFIGS, CodexPrimaries, CodexBackups,
                                        codex_api_status, codex_current_config_index,
                                        codex_api_status', codex_current_config_index',
                                        codex_is_using_backup, CodexProbeDue) ]_vars

(* The request that has just started came when the cooldown of the      *)
(* first entry had run out: its selection cleared the entry and         *)
(* returned it.                                                         *)
C15_Witness ==
    /\ obs.step = "start"
    /\ obs.client = "claude"
    /\ obs.pool0.st[0].cooldown_until # None
    /\ obs.pool0.st[0].cooldown_until <= now
    /\ obs.pool0.idx # 0
    /\ api_status[0] = NormalStatus
    /\ current_config_index = 0

(* C15 as stated: a selection never returns an entry before its         *)
(* cooldown_until, and a selection made after cooldown_until clears the *)
(* entry.                                                               *)
C15_Original ==
    [][ /\ SelectionStep =>
              /\ ~CoolingDown(api_status', current_config_index')
              /\ \A i \in DOMAIN API_CONFIGS :
                    (api_status[i].cooldown_until # None /\ api_status[i].cooldown_until < now)
                       => api_status'[i] = NormalStatus
        /\ CodexSelectionStep =>
              /\ ~CoolingDown(codex_api_status', codex_current_config_index')
              /\ \A i \in DOMAIN CODEX_CONFIGS :
                    (codex_api_status[i].cooldown_until # None /\ codex_api_status[i].cooldown_until < now)
                       => codex_api_status'[i] = NormalStatus ]_vars

(* The day-mask bit of entry i for the weekday of now is 0. *)
DayOff(i) == Weekday(now) \notin API_CONFIGS[i].time_enabled

(* C16, as the code has it: a selection returns a primary entry whose   *)
(* day-mask bit for the weekday at selection time is 0 only when that   *)
(* entry is the active one already and the selection finds no entry to  *)
(* move to.  With one-hot primaries: made while using_backup is false   *)
(* or the primary probe is due, it returns the weekday's entry if that  *)
(* is available, and a backup if it is not and a backup is available;   *)
(* this holds for the first selection after midnight as for any other.  *)
C16_DayMaskAtSelection ==
    [][ SelectionStep =>
          /\ (current_config_index' \in Primaries /\ DayOff(current_config_index')) =>
                /\ current_config_index' = current_config_index
                /\ \A b \in Backups : ~Available(api_status', b)
                /\ (\A p \in Primaries : ~Available(api_status', p))
                      \/ (is_using_backup /\ ~ProbeDue)
          /\ ( /\ ~is_using_backup \/ ProbeDue
               /\ \E p \in Primaries : Available(api_status', p) ) =>
                /\ current_config_index' = Min({p \in Primaries : Available(api_status', p)})
                /\ ~DayOff(current_config_index')
          /\ ( /\ \A p \in Primaries : ~Available(api_status', p)
               /\ \E b \in Backups : Available(api_status', b) ) =>
                /\ current_config_index' \in Backups
                /\ Available(api_status', current_config_index') ]_vars

(* The first request after midnight: the pool was on the first day's    *)
(* primary and the selection has moved it to the second day's.          *)
C16_Witness ==
    /\ obs.step = "start"
    /\ now = DayLength
    /\ API_CONFIGS[0].time_enabled = {0}
    /\ PoolSize(API_CONFIGS) = 2 /\ API_CONFIGS[1].time_enabled = {1}
    /\ obs.pool0.idx = 0
    /\ ~obs.pool0.ub
    /\ current_config_index = 1

(* C16 as stated: a selection never returns a primary entry whose       *)
(* day-mask bit for the weekday at selection time is 0.                 *)
C16_Original ==
    [][ SelectionStep =>
          ~(current_config_index' \in Primaries /\ DayOff(current_config_index')) ]_vars

(* C17: what a reader of the usage file has read is the whole text of one *)
(* version of the file: the one that was there when the reader started,   *)
(* or one that an update running meanwhile put in its place; never a      *)
(* text that is only partly written.                                      *)
C17_ReaderSeesWholeVersion ==
    (reader.pc = "done" /\ reader.loaded) =>
        /\ reader.read.written = Chunks
        /\ reader.outcome = "stats"
        /\ \E k \in reader.since..reader.upto :
               store_log.versions[k] = Version(reader.read.val)

(* An update replaced the file between the reader's open and its read: *)
(* the reader has the whole text from before the update.               *)
C17_Witness ==
    /\ reader.pc = "done" /\ reader.loaded
    /\ reader.upto = reader.since + 1
    /\ store_log.versions[reader.upto].present
    /\ store_log.versions[reader.since] = Version(reader.read.val)
    /\ store_log.versions[reader.upto] # Version(reader.read.val)

RECURSIVE ApplyAll(_, _)
(* The statistics after the calls of a sequence, in order. *)
ApplyAll(stats, usages) ==
    IF usages = <<>> THEN stats
    ELSE ApplyAll(updated(stats, Head(usages)), Tail(usages))

(* The committed updates after the first j of them. *)
CommittedAfter(j) == SubSeq(store_log.committed, j + 1, Len(store_log.committed))

(* The recorder is inside the with block of record_usage. *)
InUpdate(w) == recorder[w].pc # "idle"

(* What the file says to one who takes a missing file for empty statistics. *)
StatsOnDisk ==
    IF fs.stats_file = None THEN _get_empty_stats_structure ELSE fs.data[fs.stats_file].val

(* C18: updates of the usage file are applied one at a time. While the   *)
(* statistics have not been reset no update is lost: once the calls have *)
(* returned the file counts every one of them. At every moment the file, *)
(* if it exists, is whole and holds the committed updates from some      *)
(* point on, applied in order to empty statistics: from the first one,   *)
(* or from the first one after a reset; if it does not exist, a reset    *)
(* came after the last committed update.                                 *)
C18_UpdatesSerialized ==
    /\ \A v, w \in Recorders : (InUpdate(v) /\ InUpdate(w)) => v = w
    /\ (store_log.resets = 0 /\ \A w \in Recorders : ~InUpdate(w)) =>
          /\ Len(store_log.committed) = store_log.records
          /\ StatsOnDisk = ApplyAll(_get_empty_stats_structure, store_log.committed)
    /\ fs.stats_file # None =>
          /\ fs.data[fs.stats_file].written = Chunks
          /\ \E j \in {0} \cup store_log.reset_at :
                StatsOnDisk = ApplyAll(_get_empty_stats_structure, CommittedAfter(j))
    /\ fs.stats_file = None => Len(store_log.committed) \in store_log.reset_at

(* An update, a reset, an update: the file holds the second update only. *)
C18_Witness ==
    /\ Len(store_log.committed) = 2
    /\ store_log.reset_at = {1}
    /\ fs.stats_file # None
    /\ StatsOnDisk = ApplyAll(_get_empty_stats_structure, CommittedAfter(1))
    /\ StatsOnDisk # ApplyAll(_get_empty_stats_structure, store_log.committed)
    /\ \A w \in Recorders : ~InUpdate(w)

(* C18 as stated: updates are applied one at a time, after N updates    *)
(* the file reflects all N, and at every moment the file is the result  *)
(* of applying a prefix of the committed updates to the initial content. *)
C18_Original ==
    /\ \A v, w \in Recorders : (InUpdate(v) /\ InUpdate(w)) => v = w
    /\ (\A w \in Recorders : ~InUpdate(w)) =>
          StatsOnDisk = ApplyAll(_get_empty_stats_structure, store_log.committed)
    /\ \E k \in 0..Len(store_log.committed) :
          StatsOnDisk = ApplyAll(_get_empty_stats_structure, SubSeq(store_log.committed, 1, k))

(* A step of a handler on the pools. *)
PoolStep == pool_log' # pool_log \/ handler' # handler

(* The call changed the active index or the backup flag of its pool. *)
ChangedSelection(e) == e.after.idx # e.before.idx \/ e.after.ub # e.before.ub

(* The call changed an error count, a cooldown or a status of its pool. *)
ChangedStatus(e) == e.after.st # e.before.st

LoggedOps(log) == {log.ops[k] : k \in 1..Len(log.ops)}

(* Each call of the step works on the pool as the call before it left *)
(* it, the first one on the pool as the last step of any handler left *)
(* it, and the pool after the step is the pool after the last call.   *)
Uninterrupted(log, G0, G1) ==
    /\ log.ops # <<>>
    /\ log.ops[1].before = G0
    /\ \A k \in 2..Len(log.ops) : log.ops[k].before = log.ops[k - 1].after
    /\ log.ops[Len(log.ops)].after = G1

C20_ClientPerAttempt ==
    /\ obs.client_sends <= 1
    /\ req.pc \in WaitingPcs => (obs.retry_client = "open" /\ obs.client_sends = 1)
    /\ req.pc = "done" => obs.retry_client # "open"

(* ---- C21, C22: the thinking state of translated streams ---- *)
ProcessedEvents(s) == {translation[s].events[i] : i \in 1..translation[s].done}

(* the keys of _thinking_states the events of stream s have read or written *)
KeysUsed(s) == {message_id(e) : e \in {p \in ProcessedEvents(s) : UsesThinkingState(p)}}

InFlight(s) == translation[s].pc = "open"

(* C21: when two translated streams are in flight at the same time, the   *)
(* thinking state used for one of them is never read or changed by events *)
(* of the other: no entry of _thinking_states has been read or written by *)
(* events of both streams.                                                *)
C21_ThinkingStatePerStream ==
    \A s \in StreamIds, t \in StreamIds :
        s # t /\ InFlight(s) /\ InFlight(t) => KeysUsed(s) \cap KeysUsed(t) = {}

(* the content strings the client of stream s has been sent, in order *)
RECURSIVE ContentsOf(_)
ContentsOf(choices) ==
    IF choices = <<>> THEN <<>>
    ELSE (IF Head(choices).delta = "content" THEN <<Head(choices).content>> ELSE <<>>)
         \o ContentsOf(Tail(choices))

HasThinking(s) == \E i \in DOMAIN translation[s].events : translation[s].events[i].kind = "thinking_delta"

(* C22: in the client output of one translated message the thinking text *)
(* is preceded by exactly one <think> and followed by exactly one        *)
(* </think>, with no answer text between the two markers; a message      *)
(* without thinking contains neither marker.                             *)
C22_ThinkingBracketed ==
    \A s \in StreamIds :
        translation[s].pc = "done" =>
            LET c == ContentsOf(translation[s].out)
                opens == {i \in DOMAIN c : c[i] = ThinkOpen}
                closes == {i \in DOMAIN c : c[i] \in {ThinkClose, ThinkCloseBeforeText}}
                thinking == {i \in DOMAIN c : c[i] = ThinkingText}
                text == {i \in DOMAIN c : c[i] = AnswerText}
            IN  IF HasThinking(s)
                THEN /\ Cardinality(opens) = 1
                     /\ Cardinality(closes) = 1
                     /\ \A i \in opens, j \in closes :
                            /\ i < j
                            /\ \A k \in thinking : i < k /\ k < j
                            /\ \A k \in text : ~(i < k /\ k < j)
                ELSE opens = {} /\ closes = {}

(* ---- C23: the answer when every attempt has failed ---- *)
(* C23: whenever every upstream attempt of a request has failed, the    *)
(* attempt loop is used up and the extended retry has given up, the     *)
(* proxy answers the client with HTTP 502.                              *)
C23_ExhaustedAnswers502 ==
    (req.pc = "done" /\ obs.gave_up) => obs.client_status = 502

(* ---- C24: a request with an unknown user key ---- *)
(* the step in which a request is turned away for its key *)
RejectStep == req.pc = "idle" /\ req'.pc = "done" /\ obs'.client_status = 401

NoAttempt(o) ==
    /\ o.main_attempts = 0 /\ o.ladder_attempts = 0 /\ o.ext_iterations = 0
    /\ o.served_by = NoTarget
    /\ o.retry_client = "none"

(* C24 (amended): a request whose bearer key is not in the user-key table *)
(* is answered 401 with the authentication_error / invalid_api_key body,  *)
(* without any upstream attempt, without a change to the messages pool    *)
(* and to the adaptive timeout; a Responses request has run one selection *)
(* on the responses pool before its key was looked at, which counts no    *)
(* error.                                                                 *)
C24_UnknownKeyRejected ==
    [][RejectStep =>
        /\ obs'.error = invalid_api_key
        /\ NoAttempt(obs')
        /\ Globals' = Globals
        /\ Adaptive' = Adaptive
        /\ obs'.client # "codex" => CodexGlobals' = CodexGlobals
        /\ obs'.client = "codex" =>
              /\ CodexGlobals' = get_current_codex_config(CODEX_CONFIGS, CodexGlobals, now)
              /\ \A i \in DOMAIN codex_api_status :
                    codex_api_status'[i].error_count <= codex_api_status[i].error_count]_vars

(* A Responses request has been turned away, and the selection made for it *)
(* has changed the responses pool.                                         *)
C24_Witness ==
    /\ req.pc = "done"
    /\ obs.client_status = 401
    /\ obs.client = "codex"
    /\ obs.pool0 # Snapshot(CodexGlobals)

(* C24 as stated: the state of neither pool changes. *)
C24_Original ==
    [][RejectStep =>
        /\ obs'.error = invalid_api_key
        /\ NoAttempt(obs')
        /\ Globals' = Globals
        /\ CodexGlobals' = CodexGlobals]_vars

(* The index of a pool is -1 when the pool is empty and an index of the *)
(* pool otherwise.                                                      *)
ValidIndex(cfgs, idx) ==
    IF PoolSize(cfgs) = 0 THEN idx = -1 ELSE idx \in 0..(PoolSize(cfgs) - 1)

(* C25: the active index of each pool is -1 exactly when the pool is   *)
(* empty and otherwise an index of the pool, in every reachable state, *)
(* the states right after entries are added, removed, disabled or      *)
(* reloaded included.                                                  *)
C25_ActiveIndexValid ==
    /\ ValidIndex(API_CONFIGS, current_config_index)
    /\ ValidIndex(CODEX_CONFIGS, codex_current_config_index)

(* C25: an entry of the responses pool has been disabled while a request *)
(* that had been switched to it is in flight.                            *)
C25_Witness ==
    /\ pool_log.edits > 0
    /\ Len(_all_configs.codex_configs) = 2
    /\ PoolSize(CODEX_CONFIGS) = 1
    /\ \E h \in Handlers : handler[h].pc = "resent" /\ handler[h].client = "codex"

(* Handler h takes a step on an answer of the upstream. *)
AnswersNow(h) ==
    /\ handler[h].pc \in {"sent", "resent"}
    /\ handler'[h] # handler[h]
    /\ PoolSize(LiveConfig(handler[h].client).entries) > 0

(* What the step of h does is what the configuration cfg prescribes for *)
(* some answer.                                                         *)
ActsOn(h, cfg) ==
    \E code \in AnswerCodes :
        LET todo == AnswerOps(h, handler[h].client, handler[h].pc,
                              strategy_of(cfg.strategies, code), cfg.ladder,
                              PoolState(PoolOfClient(handler[h].client)))
        IN /\ pool_log'.ops = todo.ops
           /\ handler'[h].pc = todo.pc
           /\ todo.pc # "idle" =>
                 /\ handler'[h].last.code = code
                 /\ handler'[h].last.read = cfg

RECURSIVE TextStreamed(_)
TextStreamed(events) ==
    IF events = <<>> THEN <<>>
    ELSE (IF Head(events).kind = "text_delta" THEN Head(events).text ELSE <<>>)
         \o TextStreamed(Tail(events))

(* C26: the JSON returned to an OpenAI client that asked for no stream *)
(* has as content the text_delta fragments the upstream streamed, in   *)
(* order, and finish_reason "stop".                                    *)
C26_NonStreamContent ==
    rewriter.pc = "responded" =>
        /\ rewriter.response.object = "chat.completion"
        /\ rewriter.response.content = TextStreamed(rewriter.events)
        /\ rewriter.response.finish_reason = "stop"

(* C26: "foo", " ", "bar" have been streamed in two chunks and the *)
(* response has been made.                                         *)
C26_Witness ==
    /\ rewriter.pc = "responded"
    /\ rewriter.events = <<TextDelta(<<"foo">>), TextDelta(<<" ">>), TextDelta(<<"bar">>)>>
    /\ Len(rewriter.all_chunks) = 2
    /\ rewriter.response.content = <<"foo", " ", "bar">>

(* The step in which the handler takes an answer of the attempt loop *)
(* whose status is classified switch_api.                            *)
SwitchApiStep ==
    /\ req.pc = "main_sent" /\ req'.pc # "main_sent"
    /\ obs'.step \in {"switched", "switch_api"}
    /\ obs'.sw.called

(* The pool of the request and its threshold. *)
PoolOfRequest == IF req.client = "codex" THEN CodexGlobals ELSE Globals

ThresholdOfRequest == IF req.client = "codex" THEN codex_error_threshold ELSE api_error_threshold

(* The switch of the step has found the counter as it stood plus n, and *)
(* has selected a replacement exactly if that is at or above the        *)
(* threshold.                                                           *)
SwitchedOnCount(n) ==
    LET G == PoolOfRequest
    IN /\ obs'.sw.pre.idx = G.idx
       /\ obs'.sw.pre.st[G.idx].error_count = G.st[G.idx].error_count + n
       /\ obs'.sw.ok <=> (G.st[G.idx].error_count + n >= ThresholdOfRequest)

(* The step in which a Messages request whose last failure was a        *)
(* switch_api status records the error it had put off.                  *)
DeferredRecordStep ==
    /\ req.client # "codex"
    /\ req.should_record_error_after_retry
    /\ req.last_error_strategy = "switch_api"
    /\ req.last_error_status_code # None
    /\ \/ req.pc = "exhausted" /\ req'.pc # "exhausted"
       \/ /\ req.pc = "post2" /\ req'.pc # "post2"
          /\ req.upstream_resp.status >= 400
          /\ req.upstream_resp.status \notin {401, 403}

TargetOfEntry(client, i) == IF client = "codex" THEN CodexTarget(i) ELSE PoolTarget(i)

(* The step in which an extended retry loop is left without a response, *)
(* after an attempt loop all of whose failures were classified          *)
(* switch_api.                                                          *)
GiveUpStep ==
    /\ ~obs.gave_up /\ obs'.gave_up
    /\ obs.only_switch_api
    /\ obs.ladder_attempts = 0

(* C29: when the attempt loop has ended without success on switch_api  *)
(* failures, the request is not given up before every other entry of   *)
(* the pool has been attempted at least once.                          *)
C29_FallthroughTriesEveryEntry ==
    [][ GiveUpStep =>
           \A i \in DOMAIN (IF req.client = "codex" THEN CODEX_CONFIGS ELSE API_CONFIGS) :
               TargetOfEntry(req.client, i) \in obs.tried ]_vars

(* Steps that select exactly once on the messages pool: the loop top of  *)
(* a Messages request, the start of a request that is not a Claude one,  *)
(* and a body that cannot be converted.                                  *)
SelectsOnce ==
    \/ req.pc = "loop" /\ req'.pc = "main_sent" /\ req.client # "codex"
    \/ req.pc = "idle" /\ req'.pc = "loop" /\ req'.client # "claude"
    \/ req.pc = "idle" /\ req'.pc = "done" /\ obs'.client_status = 400

(* Steps that select exactly once on the responses pool. *)
CodexSelectsOnce ==
    \/ req.pc = "loop" /\ req'.pc = "main_sent" /\ req.client = "codex"
    \/ req.pc = "idle" /\ req'.pc = "done" /\ obs'.client = "codex"

(* What a selection made while using_backup is true leaves behind: G0 is *)
(* the pool state before it, G1 the one after it, availP the primaries   *)
(* available when it is made and due whether the probe is due.           *)
ProbeOutcome(G0, G1, availP, due) ==
    /\ ~G1.ub => due
    /\ due /\ availP # {} =>
           /\ ~G1.ub
           /\ G1.idx = Min(availP)
           /\ G1.lpc = None
    /\ due /\ availP = {} =>
           /\ G1.ub
           /\ \/ G1.lpc = now
              \/ G1.idx # G0.idx /\ G1.lpc = None

(* C30, as the code has it: while using_backup is true, a selection      *)
(* switches back to a primary only when last_primary_check_at is unset   *)
(* or at least primary_check_interval has passed since it; such a        *)
(* selection, if some primary is available, adopts the first available   *)
(* primary, clears using_backup and unsets last_primary_check_at, and    *)
(* otherwise sets last_primary_check_at to now unless it moves to        *)
(* another backup entry, which unsets it.                                *)
C30_PrimaryProbe ==
    [][ /\ (SelectsOnce /\ is_using_backup) =>
               ProbeOutcome(Globals, Globals',
                            {i \in Primaries : Available(api_status', i)}, ProbeDue)
        /\ (CodexSelectsOnce /\ codex_is_using_backup /\ PoolSize(CODEX_CONFIGS) >= 2) =>
               ProbeOutcome(CodexGlobals, CodexGlobals',
                            {i \in CodexPrimaries : CodexAvailable(codex_api_status', i)},
                            CodexProbeDue) ]_vars

(* The request that has just started selected once, found the pool on   *)
(* backup, and its selection went back to the first primary and unset   *)
(* last_primary_check_at.                                               *)
C30_Witness ==
    /\ obs.step = "start"
    /\ obs.client = "openai"
    /\ obs.pool0.ub
    /\ obs.pool0.idx \in Backups
    /\ ~is_using_backup
    /\ current_config_index = Min({i \in Primaries : Available(api_status, i)})
    /\ last_primary_check_time = None

(* C30 as stated: a selection made while using_backup is true and the    *)
(* probe is due sets last_primary_check_at to now.                       *)
C30_Original ==
    [][ /\ (SelectsOnce /\ is_using_backup /\ ProbeDue) => last_primary_check_time' = now
        /\ (CodexSelectsOnce /\ codex_is_using_backup /\ CodexProbeDue
            /\ PoolSize(CODEX_CONFIGS) >= 2) => codex_last_primary_check_time' = now ]_vars

(* The backup entries of a pool that are available in the state reached. *)
AvailableBackups == {i \in Backups : Available(api_status', i)}

CodexAvailableBackups == {i \in CodexBackups : CodexAvailable(codex_api_status', i)}

(* C31, as the code has it: while using_backup is true and no primary is *)
(* adopted, a selection returns the earliest-configured available backup *)
(* entry, which is the current backup entry whenever it is still         *)
(* available and no backup configured before it is; when no backup is    *)
(* available it returns the current entry.                               *)
C31_BackupKept ==
    [][ /\ (SelectsOnce /\ is_using_backup /\ is_using_backup') =>
               current_config_index' =
                   IF AvailableBackups # {} THEN Min(AvailableBackups)
                   ELSE current_config_index
        /\ (CodexSelectsOnce /\ codex_is_using_backup /\ codex_is_using_backup'
            /\ PoolSize(CODEX_CONFIGS) >= 2) =>
               codex_current_config_index' =
                   IF CodexAvailableBackups # {} THEN Min(CodexAvailableBackups)
                   ELSE codex_current_config_index ]_vars

(* The request that has just started selected once on a pool that was on *)
(* a backup entry; the entry is still available, and the selection has   *)
(* moved to a backup configured before it.                               *)
C31_Witness ==
    /\ obs.step = "start"
    /\ obs.client = "openai"
    /\ obs.pool0.ub
    /\ obs.pool0.idx \in Backups
    /\ Available(api_status, obs.pool0.idx)
    /\ is_using_backup
    /\ current_config_index \in Backups
    /\ current_config_index < obs.pool0.idx

(* C31 as stated: while using_backup is true and no primary is adopted,  *)
(* a selection returns the current backup entry whenever it is still     *)
(* available.                                                            *)
C31_Original ==
    [][ /\ (SelectsOnce /\ is_using_backup /\ is_using_backup'
            /\ current_config_index \in Backups
            /\ Available(api_status', current_config_index)) =>
               current_config_index' = current_config_index
        /\ (CodexSelectsOnce /\ codex_is_using_backup /\ codex_is_using_backup'
            /\ PoolSize(CODEX_CONFIGS) >= 2
            /\ codex_current_config_index \in CodexBackups
            /\ CodexAvailable(codex_api_status', codex_current_config_index)) =>
               codex_current_config_index' = codex_current_config_index ]_vars

(* The primary entries of a pool that are available in the state reached. *)
AvailablePrimaries == {i \in Primaries : Available(api_status', i)}

CodexAvailablePrimaries == {i \in CodexPrimaries : CodexAvailable(codex_api_status', i)}

(* C32: when using_backup is false, a selection returns the              *)
(* earliest-configured available primary if one exists; otherwise it     *)
(* returns the earliest-configured available backup and sets             *)
(* using_backup = true and backup_started_at = now.                      *)
C32_SelectionOffBackup ==
    [][ /\ (SelectsOnce /\ ~is_using_backup) =>
               /\ AvailablePrimaries # {} =>
                      /\ current_config_index' = Min(AvailablePrimaries)
                      /\ ~is_using_backup'
               /\ AvailablePrimaries = {} /\ AvailableBackups # {} =>
                      /\ current_config_index' = Min(AvailableBackups)
                      /\ is_using_backup'
                      /\ backup_start_time' = now
        /\ (CodexSelectsOnce /\ ~codex_is_using_backup /\ PoolSize(CODEX_CONFIGS) >= 2) =>
               /\ CodexAvailablePrimaries # {} =>
                      /\ codex_current_config_index' = Min(CodexAvailablePrimaries)
                      /\ ~codex_is_using_backup'
               /\ CodexAvailablePrimaries = {} /\ CodexAvailableBackups # {} =>
                      /\ codex_current_config_index' = Min(CodexAvailableBackups)
                      /\ codex_is_using_backup'
                      /\ codex_backup_start_time' = now ]_vars

(* The request that has just started selected once on a pool that was    *)
(* not on backup; no primary is available, and the selection has gone to *)
(* the first available backup and stamped backup_started_at.             *)
C32_Witness ==
    /\ obs.step = "start"
    /\ obs.client = "openai"
    /\ ~obs.pool0.ub
    /\ \A i \in Primaries : ~Available(api_status, i)
    /\ is_using_backup
    /\ current_config_index \in Backups
    /\ \A i \in Backups : Available(api_status, i) => current_config_index <= i
    /\ backup_start_time = now

(* The attempt of the main loop has just been answered with a status the *)
(* table lists as normal_retry.                                          *)
NormalRetryStep == req.pc = "main_sent" /\ obs'.step = "normal_retry"

(* The entry's error state after one more error. *)
OneMoreError(st0, st1, i) ==
    /\ st1[i].error_count = st0[i].error_count + 1
    /\ \A j \in DOMAIN st0 \ {i} : st1[j] = st0[j]

(* The response to a normal_retry status is being kept for the client. *)
NormalRetryKept ==
    /\ req.pc \in {"post", "post2", "respond", "streaming"}
    /\ req.upstream_resp.open
    /\ req.upstream_resp.status \in no_retry_codes

LookedUp(strategies, error_code, error_type, fallback) ==
    IF get_error_strategy(strategies, error_code, error_type) = "none" THEN fallback
    ELSE get_error_strategy(strategies, error_code, error_type)

(* C34: an outcome with no exact key in its strategy table is handled    *)
(* with the strategy stored under that table's default key; only when    *)
(* there is no default key does the hard-coded fallback apply            *)
(* (switch_api for transport errors, strategy_retry for HTTP statuses).  *)
C34_DefaultKey ==
    \A strategies \in {merged_error_handling_strategies(classified.stored)} :
        /\ ( /\ classified.outcome.kind = "http"
             /\ str(classified.outcome.code) \notin DOMAIN strategies.http_status_codes )
           => classified.handled =
                  LookedUp(strategies, classified.outcome.code, "http_status_code",
                           "strategy_retry")
        /\ ( /\ classified.outcome.kind = "exc"
             /\ classified.outcome.exc \notin DOMAIN strategies.network_errors )
           => classified.handled =
                  LookedUp(strategies, classified.outcome.exc, "network_error", "switch_api")

(* Some primary entry of the messages pool is available now. *)
PrimaryAvailable == \E i \in Primaries : Available(api_status, i)

(* The next probe falls due before the clock stops. *)
ProbeWithinReach ==
    \/ last_primary_check_time = None
    \/ last_primary_check_time + primary_api_check_interval <= MaxProbeTime

(* C35: if the pool is on backup and a primary becomes available and     *)
(* stays available while requests keep arriving, then eventually (at the *)
(* latest at the first selection made primary_check_interval after the   *)
(* previous probe) a selection returns that primary and using_backup     *)
(* becomes false.                                                        *)
C35_PrimaryRecovered ==
    /\ [][ ( /\ obs'.step = "select"
             /\ now' = now
             /\ is_using_backup
             /\ ProbeDue
             /\ PrimaryAvailable )
           => /\ ~is_using_backup'
              /\ current_config_index' \in Primaries
              /\ Available(api_status', current_config_index') ]_vars
    /\ (is_using_backup /\ PrimaryAvailable /\ ProbeWithinReach)
           ~> (~is_using_backup \/ ~PrimaryAvailable)

(* A selection made an interval or more after the pool went on backup    *)
(* has found it on backup and has gone back to a primary.                *)
C35_Witness ==
    /\ obs.step = "select"
    /\ obs.pool0.ub
    /\ obs.pool0.idx \in Backups
    /\ ~is_using_backup
    /\ current_config_index \in Primaries
    /\ Available(api_status, current_config_index)
    /\ now >= primary_api_check_interval

PoolMutexes == {"key_switch_lock", "codex_key_switch_lock"}

FileOperations == {"os.path.exists", "json.load", "tempfile.mkstemp", "json.dump", "os.replace"}

OffBackupTier(cfgs, G) ==
    /\ G.ub
    /\ _get_backup_indices(cfgs) # {}
    /\ G.idx \notin _get_backup_indices(cfgs)

(* C37 (amended): whenever using_backup is true in a pool that has an   *)
(* entry whose tier is backup, active_index refers to an entry whose     *)
(* tier is backup, except that an edit of the entries of the responses   *)
(* pool can leave using_backup true with another entry active.           *)
C37_BackupTier ==
    /\ [](~OffBackupTier(API_CONFIGS, Globals))
    /\ [][ OffBackupTier(CODEX_CONFIGS, CodexGlobals)'
            => \/ OffBackupTier(CODEX_CONFIGS, CodexGlobals)
               \/ pool_log'.edits # pool_log.edits ]_vars

(* C37: after an edit, each pool has a backup entry, is on backup and   *)
(* has one of its backup entries active.                                *)
C37_Witness ==
    /\ pool_log.edits > 0
    /\ is_using_backup
    /\ current_config_index \in _get_backup_indices(API_CONFIGS)
    /\ codex_is_using_backup
    /\ codex_current_config_index \in _get_backup_indices(CODEX_CONFIGS)

(* C37 as stated: whenever using_backup is true, active_index refers to *)
(* an entry whose tier is backup.                                        *)
C37_Original ==
    /\ is_using_backup => current_config_index \in _get_backup_indices(API_CONFIGS)
    /\ codex_is_using_backup => codex_current_config_index \in _get_backup_indices(CODEX_CONFIGS)

(* The three fields of an entry's error state agree. *)
ErrorStateAgrees(s, threshold) ==
    /\ (s.error_count >= threshold) <=> (s.cooldown_until # None)
    /\ (s.cooldown_until # None) <=> (s.status = "warning")

(* C38: with a fixed threshold, in every reachable state each entry has *)
(* error_count >= threshold if and only if its cooldown_until is set,   *)
(* if and only if its status is warning.                                *)
C38_ErrorState ==
    /\ \A i \in DOMAIN api_status : ErrorStateAgrees(api_status[i], api_error_threshold)
    /\ \A i \in DOMAIN codex_api_status :
           ErrorStateAgrees(codex_api_status[i], codex_error_threshold)

(* C38: an entry has reached the threshold and is cooling down, and     *)
(* another entry of its pool has an error below the threshold.          *)
C38_Witness ==
    \E i, j \in DOMAIN api_status :
        /\ api_status[i].error_count >= api_error_threshold
        /\ api_status[i].cooldown_until # None
        /\ api_status[i].status = "warning"
        /\ api_status[j].error_count \in 1..(api_error_threshold - 1)
        /\ api_status[j].status = "normal"

(* C39: at every moment between the steps of concurrent Responses        *)
(* streams, extra_seconds is at least 0 and a whole multiple of the      *)
(* increment, successes is between 0 and 2, and successes is above 0     *)
(* only while extra_seconds is above 0.                                  *)
C39_AdaptiveState ==
    /\ codex_timeout_extra_seconds >= 0
    /\ codex_timeout_extra_seconds % StreamIncrement = 0
    /\ codex_success_count \in 0..2
    /\ codex_success_count > 0 => codex_timeout_extra_seconds > 0

(* C39: two streams that were started under different timeouts are being *)
(* read while two successes have been counted.                           *)
C39_Witness ==
    \E s, t \in ResponseStreams :
        /\ codex_stream[s].pc = "streaming"
        /\ codex_stream[t].pc = "streaming"
        /\ codex_stream[s].total # codex_stream[t].total
        /\ codex_success_count = 2
        /\ codex_timeout_extra_seconds > StreamIncrement

(* The threshold of the pool a request is served from. *)
ThresholdSeen(o) == IF o.client = "codex" THEN codex_error_threshold ELSE api_error_threshold

(* C40: a call of smart_switch_api or smart_codex_switch_api for an      *)
(* entry whose error_count is below the threshold returns False and      *)
(* leaves the pool as it was: the active index, using_backup, the two    *)
(* timestamps and every entry's error state.                             *)
C40_NoSwitchBelowThreshold ==
    ( /\ obs.sw.called
      /\ obs.sw.pre.st[obs.sw.pre.idx].error_count < ThresholdSeen(obs) )
    => /\ ~obs.sw.ok
       /\ obs.sw.post = obs.sw.pre

(* C40: a switch has been asked for an entry that has one error, one *)
(* below the threshold, in a pool that has another entry.            *)
C40_Witness ==
    /\ obs.sw.called
    /\ obs.sw.pre.st[obs.sw.pre.idx].error_count = 1
    /\ ThresholdSeen(obs) = 2
    /\ \E i \in DOMAIN obs.sw.pre.st : i # obs.sw.pre.idx
    /\ ~obs.sw.ok

(* C6 as stated: whatever way the upstream byte stream is split into    *)
(* chunks, the bytes sent to the client, taken together, are the ones   *)
(* sent when the whole stream arrives as one chunk.                     *)
C6_ChunkingInvariant ==
    rewriter.pc \in {"ended", "returned"} => rewriter.sent = rewrite_whole(rewriter.upstream)

====
